---- MODULE Spec2Model ----
(***************************************************************************)
(* A model of the ipyrad assembly engine: the stage-5 consensus Processor  *)
(* (consens_utils.py), the sample state kept by the stage drivers           *)
(* (jointestimate.py, s4_joint_estimate.py, set_sample_stats), the stage-7 *)
(* driver (s7_assemble.py) and the stage-3 cluster builder and aligner      *)
(* (clustmap_within_denovo_utils.py).                                       *)
(*                                                                         *)
(* Each subsystem has its own variables, initial predicate and next-state  *)
(* relation; a specification of one subsystem leaves the variables of the  *)
(* others at their idle values.                                            *)
(***************************************************************************)
EXTENDS Integers, Sequences, FiniteSets, TLC

VARIABLES
    \* ---- stage 5: Processor (consens_utils.py) ----
    params,        \* data.params / data.* settings read by the Processor
    s5pc,          \* position of the Processor: "iter", "KeyError", "written", ...
    nread,         \* clusters pulled from iter_clusters so far
    loc,           \* the Locus travelling through the generator chain (or NoLoc)
    counters,      \* Processor.counters
    filters,       \* Processor.filters
    consens_seqs,  \* Processor.consens_seqs
    nalleles,      \* Processor.nalleles
    refpos,        \* Processor.refpos
    catgs,         \* Processor.catgs
    \* ---- sample state (stages 3, 4, 5, 6, 7 drivers) ----
    sample,        \* one Sample: state, clusters_hidepth
    stlog,         \* the last stage operation applied to the sample
    \* ---- stage 7: Step7.run (s7_assemble.py) ----
    s7,            \* the driver: pc, sample states, saved JSON, jobs
    \* ---- stage 3: build_clusters / persistent_popen_align3 ----
    s3,            \* the builder/aligner: pc, inputs, cluster file, aligned list
    \* ---- merging of the chunk files of a sample ----
    merge,         \* the chunk files in the tmp directory and the merged output
    \* ---- the workers of a stage and the shared tmp directory ----
    workers,       \* the running jobs of a stage and the files they write
    \* ---- Assembly.set_params (core/assembly.py) ----
    asm            \* mindepth_majrule, mindepth_statistical, last outcome

s5vars == <<params, s5pc, nread, loc, counters, filters,
            consens_seqs, nalleles, refpos, catgs>>
stvars == <<sample, stlog>>
dirvars == <<merge, workers, asm>>
vars == <<params, s5pc, nread, loc, counters, filters,
          consens_seqs, nalleles, refpos, catgs, sample, stlog, s7, s3,
          merge, workers, asm>>

\* ------------------------------------------------------------------------
\* Generic helpers
\* ------------------------------------------------------------------------
Max(a, b) == IF a >= b THEN a ELSE b
Min(a, b) == IF a <= b THEN a ELSE b

SumSeq(s) ==
    LET RECURSIVE Go(_)
        Go(i) == IF i > Len(s) THEN 0 ELSE s[i] + Go(i + 1)
    IN Go(1)

\* F applied to the value of v
Strict(v, F(_)) == CHOOSE r \in {F(x) : x \in {v}} : TRUE

\* the sequence <<F(1), ..., F(n)>>
Tab(n, F(_)) ==
    LET RECURSIVE Go(_)
        Go(i) == IF i > n THEN <<>> ELSE <<F(i)>> \o Go(i + 1)
    IN Go(1)

\* the subsequence of s at the (ascending) positions satisfying Keep
SelectIdx(s, Keep(_)) ==
    LET RECURSIVE Go(_)
        Go(i) == IF i > Len(s) THEN <<>>
                 ELSE IF Keep(i) THEN <<s[i]>> \o Go(i + 1) ELSE Go(i + 1)
    IN Go(1)

\* ------------------------------------------------------------------------
\* Exact natural-number arithmetic beyond the machine word, for get_binom:
\* a number is its sequence of base-10000 limbs, least significant first.
\* ------------------------------------------------------------------------
RECURSIVE BigNorm(_, _)
BigNorm(x, c) ==
    IF x = <<>>
    THEN IF c = 0 THEN <<>> ELSE <<c % 10000>> \o BigNorm(<<>>, c \div 10000)
    ELSE LET v == Head(x) + c
         IN <<v % 10000>> \o BigNorm(Tail(x), v \div 10000)

BigOf(k) == BigNorm(<<>>, k)

BigMul(x, k) == IF k = 0 THEN <<>> ELSE BigNorm([i \in 1..Len(x) |-> x[i] * k], 0)

BigAdd(x, y) ==
    LET n == Max(Len(x), Len(y))
        at(z, i) == IF i <= Len(z) THEN z[i] ELSE 0
    IN BigNorm([i \in 1..n |-> at(x, i) + at(y, i)], 0)

BigLess(x, y) ==
    IF Len(x) # Len(y) THEN Len(x) < Len(y)
    ELSE \E i \in 1..Len(x) :
            /\ x[i] < y[i]
            /\ \A j \in (i + 1)..Len(x) : x[j] = y[j]

RECURSIVE BigPow(_, _)
BigPow(b, n) ==
    IF n = 0 THEN <<1>> ELSE Strict(BigPow(b, n - 1), LAMBDA y : BigMul(y, b))

\* ------------------------------------------------------------------------
\* Byte codes: A=65 C=67 G=71 T=84 N=78 '-'=45 'n'=110 (the arrays are
\* np.uint8 views of the text)
\* ------------------------------------------------------------------------
\* ipyrad.assemble.utils.TRANS: (p, q) -> IUPAC heterozygote code
\* R=A/G, K=G/T, S=C/G, Y=C/T, W=A/T, M=A/C
TRANS(p, q) ==
    LET pq == {p, q} IN
    IF pq = {65, 71} THEN 82
    ELSE IF pq = {71, 84} THEN 75
    ELSE IF pq = {67, 71} THEN 83
    ELSE IF pq = {67, 84} THEN 89
    ELSE IF pq = {65, 84} THEN 87
    ELSE IF pq = {65, 67} THEN 77
    ELSE 78

\* ipyrad.assemble.utils.DCONS: IUPAC code -> its two bases
DCONS(c) ==
    IF c = 82 THEN <<71, 65>>
    ELSE IF c = 75 THEN <<71, 84>>
    ELSE IF c = 83 THEN <<71, 67>>
    ELSE IF c = 89 THEN <<84, 67>>
    ELSE IF c = 87 THEN <<84, 65>>
    ELSE IF c = 77 THEN <<67, 65>>
    ELSE <<c, c>>

\* the six heterozygote codes tested by iter_filter_heteros
HetCodes == {82, 75, 83, 89, 87, 77}

\* ------------------------------------------------------------------------
\* Stage 5: the expanded read array.  sarr holds one row per read; a
\* dereplicated row of size=k contributes k identical rows.  The array is
\* kept in run-length form: a sequence of [seq, reps], standing for reps
\* copies of seq; every count below weighs a row by reps.
\* ------------------------------------------------------------------------
NRows(seqs) == SumSeq(Tab(Len(seqs), LAMBDA i : seqs[i].reps))
NCols(seqs) == IF seqs = <<>> THEN 0 ELSE Len(seqs[1].seq)
ColCount(seqs, c, b) ==
    SumSeq(Tab(Len(seqs), LAMBDA i : IF seqs[i].seq[c] = b THEN seqs[i].reps ELSE 0))

\* the byte values a column can hold, ascending: the indices of np.bincount
\* that can be nonzero
CodeSeq == <<45, 65, 67, 71, 78, 84, 110>>

\* lines 478-480: np.bincount of the column with counts[78] and counts[45]
\* zeroed, as the counts at CodeSeq
Bincount(seqs, c) ==
    Tab(Len(CodeSeq), LAMBDA k :
        IF CodeSeq[k] \in {78, 45} THEN 0 ELSE ColCount(seqs, c, CodeSeq[k]))

\* np.argmax(counts), counts[argmax], and counts with that entry zeroed
\* (lines 483-485): the lowest index holding the maximum; index 0 when
\* every count is zero
TakeMax(cnt) ==
    IF \A k \in 1..Len(cnt) : cnt[k] = 0
    THEN [base |-> 0, num |-> 0, rest |-> cnt]
    ELSE Strict(CHOOSE k \in 1..Len(cnt) :
                    /\ \A j \in 1..Len(cnt) : cnt[j] <= cnt[k]
                    /\ \A j \in 1..(k - 1) : cnt[j] < cnt[k],
                LAMBDA k : [base |-> CodeSeq[k], num |-> cnt[k],
                            rest |-> Tab(Len(cnt), LAMBDA j : IF j = k THEN 0 ELSE cnt[j])])

\* data.error_est and data.hetero_est, as exact fractions
est_err == [num |-> 1, den |-> 1000]
est_het == [num |-> 1, den |-> 10]

RECURSIVE BigMulPow(_, _, _)
BigMulPow(x, b, n) ==
    IF n = 0 THEN x ELSE Strict(BigMul(x, b), LAMBDA y : BigMulPow(y, b, n - 1))

\* get_binom(base1, base2, est_err, est_het): [ishet, prob >= 0.95].
\* The three unnormalised posteriors share the factor comb(bsum, base1) =
\* comb(bsum, base2); with it divided out and everything multiplied by
\* 2^bsum * E.den^bsum * 2 * H.den they are the integers hetprob, homoa,
\* homob below.
get_binom(base1, base2, E, H) ==
    Strict(
      [hetprob |-> BigMul(BigMul(BigPow(E.den, base1 + base2), H.num), 2),
       homoa |-> BigMulPow(BigMulPow(BigMulPow(BigOf(H.den - H.num),
                     E.num, base2), E.den - E.num, base1), 2, base1 + base2),
       homob |-> BigMulPow(BigMulPow(BigMulPow(BigOf(H.den - H.num),
                     E.num, base1), E.den - E.num, base2), 2, base1 + base2)],
      LAMBDA p :
        LET big(x, y) == IF BigLess(x, y) THEN y ELSE x
            best == big(big(p.homoa, p.homob), p.hetprob)
            total == BigAdd(BigAdd(p.homoa, p.homob), p.hetprob)
        IN [ishet |-> BigLess(p.homoa, p.hetprob),
            \* bestprob < 0.95  <=>  20 * best < 19 * total
            conf  |-> ~BigLess(BigMul(best, 20), BigMul(total, 19))])

\* new_base_caller, lines 511-516: the majority-rule call
MajRuleCall(pbase, qbase, nump, numq) ==
    IF nump = numq THEN TRANS(pbase, qbase) ELSE pbase

\* new_base_caller, lines 518-527: the statistical call
StatCall(pbase, qbase, nump, numq) ==
    Strict(get_binom(nump, numq, est_err, est_het), LAMBDA r :
        IF ~r.conf THEN 78
        ELSE IF r.ishet THEN TRANS(pbase, qbase) ELSE pbase)

\* the (p, q, r) allele counts of a column: lines 478-493
Alleles(seqs, c) ==
    Strict(TakeMax(Bincount(seqs, c)), LAMBDA p :
    Strict(TakeMax(p.rest), LAMBDA q :
    Strict(TakeMax(q.rest), LAMBDA r :
        [pbase |-> p.base, nump |-> p.num,
         qbase |-> q.base, numq |-> q.num,
         rbase |-> r.base, numr |-> r.num])))

\* the non-masked depth of a column (line 466) and the bases in it (line 472)
NonMasked(seqs, c) == NRows(seqs) - ColCount(seqs, c, 78) - ColCount(seqs, c, 45)
Present(seqs, c) ==
    {CodeSeq[k] : k \in {j \in 1..Len(CodeSeq) :
        CodeSeq[j] \notin {78, 45} /\ ColCount(seqs, c, CodeSeq[j]) > 0}}

\* one iteration of the column loop of new_base_caller (lines 457-527):
\* [call, tri] = the byte written to cons[cidx] and whether the triallele
\* flag was set by this column
ColumnCall(seqs, c, mindepth_mj, mindepth_st) ==
    IF NonMasked(seqs, c) < mindepth_mj THEN [call |-> 78, tri |-> FALSE]
    ELSE IF Cardinality(Present(seqs, c)) = 1
    THEN [call |-> CHOOSE b \in Present(seqs, c) : TRUE, tri |-> FALSE]
    ELSE Strict(Alleles(seqs, c), LAMBDA al :
      LET tri == 100 * al.numr >= 15 * (al.nump + al.numq + al.numr)
          bidepth == al.nump + al.numq
          \* lines 507-509: int(500 * (nump / float(bidepth)))
          nump == IF bidepth > 500 THEN (500 * al.nump) \div bidepth ELSE al.nump
          numq == IF bidepth > 500 THEN (500 * al.numq) \div bidepth ELSE al.numq
          \* cons[cidx] after the majority-rule branch (lines 512-516)
          c516 == IF bidepth < mindepth_st
                  THEN MajRuleCall(al.pbase, al.qbase, nump, numq) ELSE 78
          \* that branch has no continue and the statistical call is not in
          \* an else: lines 519-527 run for every column that gets here and
          \* assign cons[cidx] on each of their paths
          c527 == StatCall(al.pbase, al.qbase, nump, numq)
      IN IF bidepth < mindepth_mj THEN [call |-> 78, tri |-> tri]
         ELSE [call |-> c527, tri |-> tri])

\* new_base_caller(sarr, mindepth_mj, mindepth_st, est_het, est_err)
new_base_caller(seqs, mindepth_mj, mindepth_st) ==
    Strict(Tab(NCols(seqs), LAMBDA c : ColumnCall(seqs, c, mindepth_mj, mindepth_st)),
           LAMBDA cols :
              [cons |-> Tab(Len(cols), LAMBDA c : cols[c].call),
               triallele |-> \E c \in 1..Len(cols) : cols[c].tri])

\* ------------------------------------------------------------------------
\* Stage 5: bounds and inputs of the Processor
\* ------------------------------------------------------------------------
MaxCols == 2        \* width of an aligned cluster
MaxRows == 3        \* dereplicated rows of a cluster
MaxReps == 1        \* size= of a row of a shallow cluster
MaxClusters == 1    \* clusters in the chunk file

\* the depth cap of iter_process_chunks and the uint16 modulus of collect_data
DepthCap == 65500
UInt16 == 65536

Alphabet == {65, 67, 71, 78, 45}
RowSeqs == [1..MaxCols -> Alphabet]

\* a total order on row sequences, used only to list each cluster once
RECURSIVE SeqCode(_)
SeqCode(q) == IF q = <<>> THEN 0 ELSE Head(q) + 128 * SeqCode(Tail(q))

\* a cluster of the chunk file: dereplicated rows (distinct sequences), each
\* with its size=; shallow clusters have up to maxrows rows
ShallowClusters(maxrows) ==
    UNION {
        {cl \in [1..r -> [seq : RowSeqs, reps : 1..MaxReps]] :
            \A i \in 1..r : \A j \in 1..r :
                i < j => SeqCode(cl[i].seq) < SeqCode(cl[j].seq)}
        : r \in 1..maxrows}

\* deep clusters: one dereplicated row whose size exceeds the cap, below and
\* above the uint16 range
DeepClusters ==
    {<<[seq |-> q, reps |-> d]>> : q \in RowSeqs, d \in {DepthCap + 1, UInt16 + 1}}

ChunkClusters(maxrows) == ShallowClusters(maxrows) \cup DeepClusters

\* pos0 of the reference position carried by the first name (is_ref only)
RefStarts == {0, 5}

\* the settings the Processor reads: data.params.*, data.is_ref, data.max_frag
ParamSpace ==
    {p \in [min_depth_majrule : {2, 3},
            min_depth_statistical : {2, 4},
            max_depth : {100000},
            max_alleles_consens : {1, 2},
            max_h_consens : {[num |-> 1, den |-> 1]},
            max_n_consens : {[num |-> 1, den |-> 2]},
            filter_min_trim_len : {1},
            max_frag : {MaxCols},
            is_ref : BOOLEAN] :
        p.min_depth_majrule <= p.min_depth_statistical}

\* no Locus has entered the chain yet
NoLoc ==
    [seqs |-> <<>>, refpos |-> <<-1, 0, 0>>, sarr |-> <<>>,
     consens |-> <<>>, rawcons |-> <<>>, triallele |-> FALSE,
     ltrim |-> 0, rtrim |-> 0,
     hidx |-> <<>>, nheteros |-> 0, nalleles |-> 1,
     outcome |-> "none"]

\* ------------------------------------------------------------------------
\* Stage 5: the generator chain of the Processor, for one cluster.  Each
\* generator either yields the Locus on or filters it; a result is
\* [yield, loc] with loc.outcome naming the filter when yield is FALSE.
\* ------------------------------------------------------------------------

\* iter_process_chunks: the Locus built from one cluster.  The trimmed views
\* of lines 146 and 149 (sarr[:, :maxlen], sarr[:65_500, :maxlen]) are bound
\* to the local name seqs, which is not used again: the Locus is built from
\* sarr itself (line 165).
iter_process_chunks(P, clust, pos0) ==
    [seqs |-> clust,
     refpos |-> IF P.is_ref THEN <<1, pos0, pos0 + NCols(clust)>> ELSE <<-1, 0, 0>>,
     \* the array handed to new_base_caller, kept for reference
     sarr |-> <<>>,
     consens |-> <<>>, rawcons |-> <<>>, triallele |-> FALSE,
     ltrim |-> 0, rtrim |-> 0,
     hidx |-> <<>>, nheteros |-> 0, nalleles |-> 1,
     outcome |-> "yield"]

\* iter_mask_repeats
iter_mask_repeats(P, l) ==
    IF P.is_ref THEN [yield |-> TRUE, loc |-> l]
    ELSE
      LET \* props < 0.9, props = idepths / shape[0]
          keep(c) == 10 * ColCount(l.seqs, c, 45) < 9 * NRows(l.seqs)
      IN
      \* loc.seqs[:, keep]
      Strict(Tab(Len(l.seqs), LAMBDA i :
                 [l.seqs[i] EXCEPT !.seq = SelectIdx(l.seqs[i].seq, keep)]),
        LAMBDA kept :
      \* loc.seqs[loc.seqs == 45] = 78
      Strict(Tab(Len(kept), LAMBDA i :
                 [kept[i] EXCEPT !.seq =
                    Tab(Len(kept[i].seq), LAMBDA c :
                        IF kept[i].seq[c] = 45 THEN 78 ELSE kept[i].seq[c])]),
        LAMBDA dashed :
      \* loc.seqs[:, np.any(loc.seqs == 110, axis=0)] = 110
      Strict(Tab(Len(dashed), LAMBDA i :
                 [dashed[i] EXCEPT !.seq =
                    Tab(Len(dashed[i].seq), LAMBDA c :
                        IF \E j \in 1..Len(dashed) : dashed[j].seq[c] = 110
                        THEN 110 ELSE dashed[i].seq[c])]),
        LAMBDA masked :
          IF NRows(masked) * NCols(masked) # 0
          THEN [yield |-> TRUE, loc |-> [l EXCEPT !.seqs = masked]]
          ELSE [yield |-> FALSE,
                loc |-> [l EXCEPT !.seqs = masked, !.outcome = "depth"]])))

\* iter_filter_mindepth
iter_filter_mindepth(P, l) ==
    IF NRows(l.seqs) >= P.min_depth_majrule /\ NRows(l.seqs) <= P.max_depth
    THEN [yield |-> TRUE, loc |-> l]
    ELSE [yield |-> FALSE, loc |-> [l EXCEPT !.outcome = "depth"]]

\* np.where(cons != 78)[0], as 0-based column indices
CalledIdx(cons) == {c - 1 : c \in {k \in 1..Len(cons) : cons[k] # 78}}

\* ndarray.any() of an index array: some element is nonzero
AnyNonZero(idx) == \E i \in idx : i # 0

SetMin(S) == CHOOSE x \in S : \A y \in S : x <= y
SetMax(S) == CHOOSE x \in S : \A y \in S : y <= x

\* the keys of Processor.filters (lines 94-99)
FilterKeys == {"depth", "maxh", "maxn", "maxalleles"}

\* iter_build_consens
iter_build_consens(P, l) ==
    Strict(new_base_caller(l.seqs, P.min_depth_majrule, P.min_depth_statistical),
      LAMBDA bc :
        LET l1 == [l EXCEPT !.consens = bc.cons, !.rawcons = bc.cons,
                            !.sarr = l.seqs, !.triallele = bc.triallele]
            trim == CalledIdx(bc.cons)
        IN IF ~AnyNonZero(trim)
           \* line 230: self.filters["mindepth"] += 1
           THEN [yield |-> FALSE, loc |-> [l1 EXCEPT !.outcome = "mindepth"]]
           ELSE IF bc.triallele /\ P.max_alleles_consens < 3
           THEN [yield |-> FALSE, loc |-> [l1 EXCEPT !.outcome = "maxalleles"]]
           ELSE
             Strict(<<SetMin(trim), SetMax(trim) + 1>>, LAMBDA t :
               [yield |-> TRUE,
                loc |-> [l1 EXCEPT
                   !.consens = SubSeq(bc.cons, t[1] + 1, t[2]),
                   !.seqs = Tab(Len(l.seqs), LAMBDA i :
                               [l.seqs[i] EXCEPT !.seq = SubSeq(@, t[1] + 1, t[2])]),
                   !.ltrim = t[1], !.rtrim = t[2],
                   !.refpos = <<l.refpos[1], l.refpos[2] + t[1],
                                l.refpos[2] + t[1] + t[2]>>]]))

\* self.maxn (line 74)
MaxN(P) == IF P.is_ref THEN [num |-> 1000000, den |-> 1] ELSE P.max_n_consens

\* iter_filter_heteros with ">=" for ">" in the tests of lines 269 and 273
iter_filter_heteros_atleast(P, l) ==
    LET size == Len(l.consens)
        nhet == Cardinality({c \in 1..size : l.consens[c] \in {82, 75, 83, 89, 87, 77}})
        nNs == Cardinality({c \in 1..size : l.consens[c] = 78})
        maxn == IF P.is_ref THEN [num |-> 1000000, den |-> 1] ELSE P.max_n_consens
    IN IF nhet * P.max_h_consens.den >= size * P.max_h_consens.num
       THEN [yield |-> FALSE, loc |-> [l EXCEPT !.nheteros = nhet, !.outcome = "maxh"]]
       ELSE IF size < P.filter_min_trim_len
       THEN [yield |-> FALSE, loc |-> [l EXCEPT !.nheteros = nhet, !.outcome = "maxn"]]
       ELSE IF nNs * maxn.den >= size * maxn.num
       THEN [yield |-> FALSE, loc |-> [l EXCEPT !.nheteros = nhet, !.outcome = "maxn"]]
       ELSE [yield |-> TRUE, loc |-> [l EXCEPT !.nheteros = nhet]]

\* iter_filter_heteros
iter_filter_heteros(P, l) ==
    Strict(SelectIdx(Tab(Len(l.consens), LAMBDA c : c),
                     LAMBDA c : l.consens[c] \in HetCodes),
      LAMBDA hidx :
        LET size == Len(l.consens)
            nNs == Cardinality({c \in 1..size : l.consens[c] = 78})
            l1 == [l EXCEPT !.hidx = hidx, !.nheteros = Len(hidx)]
        IN \* nheteros > size * maxhet
           IF Len(hidx) * P.max_h_consens.den > size * P.max_h_consens.num
           THEN [yield |-> FALSE, loc |-> [l1 EXCEPT !.outcome = "maxh"]]
           ELSE IF size < P.filter_min_trim_len
           THEN [yield |-> FALSE, loc |-> [l1 EXCEPT !.outcome = "maxn"]]
           ELSE IF nNs * MaxN(P).den > size * MaxN(P).num
           THEN [yield |-> FALSE, loc |-> [l1 EXCEPT !.outcome = "maxn"]]
           ELSE [yield |-> TRUE, loc |-> l1])

\* Counter over the haplotypes of harray: pattern -> number of reads
CountOf(rows, pat) ==
    SumSeq(Tab(Len(rows), LAMBDA i : IF rows[i].seq = pat THEN rows[i].reps ELSE 0))

\* iter_filter_alleles
iter_filter_alleles(P, l) ==
    IF l.nheteros = 1
    THEN [yield |-> TRUE, loc |-> [l EXCEPT !.nalleles = 2]]
    ELSE
      \* harray = loc.seqs[:, loc.hidx]
      Strict(Tab(Len(l.seqs), LAMBDA i :
                 [l.seqs[i] EXCEPT !.seq =
                    Tab(Len(l.hidx), LAMBDA k : l.seqs[i].seq[l.hidx[k]])]),
        LAMBDA harray :
      \* rows with an N at a hetero site are removed
      Strict(SelectIdx(harray, LAMBDA i :
                 \A k \in 1..Len(l.hidx) : harray[i].seq[k] # 78),
        LAMBDA noN :
      \* rows with a base outside the two called alleles are removed
      Strict(SelectIdx(noN, LAMBDA i : \A k \in 1..Len(l.hidx) :
                 \/ noN[i].seq[k] = DCONS(l.consens[l.hidx[k]])[1]
                 \/ noN[i].seq[k] = DCONS(l.consens[l.hidx[k]])[2]),
        LAMBDA bicalls :
      \* ccx = Counter(harray rows)
      Strict({bicalls[i].seq : i \in 1..Len(bicalls)},
        LAMBDA ccx :
          IF Cardinality(ccx) <= P.max_alleles_consens
          THEN [yield |-> TRUE, loc |-> [l EXCEPT !.nalleles = Cardinality(ccx)]]
          ELSE
            \* alleles covering at least 10% of loc.seqs.shape[0]
            Strict({a \in ccx : 10 * CountOf(bicalls, a) >= NRows(l.seqs)},
              LAMBDA alleles :
                IF Cardinality(alleles) <= P.max_alleles_consens
                THEN [yield |-> TRUE,
                      loc |-> [l EXCEPT !.nalleles = Cardinality(alleles)]]
                ELSE [yield |-> FALSE,
                      loc |-> [l EXCEPT !.nalleles = Cardinality(alleles),
                                        !.outcome = "maxalleles"]])))))

\* the next generator of the chain pulls from the one before it
Then(g, F(_)) == Strict(g, LAMBDA x : IF x.yield THEN F(x.loc) ELSE x)

\* the whole chain for one cluster: the Locus as the last generator that
\* touched it left it; outcome "yield" when it reaches collect_data
RunChain(P, clust, pos0) ==
    Then(Then(Then(Then(
        Strict(iter_process_chunks(P, clust, pos0), LAMBDA l : iter_mask_repeats(P, l)),
        LAMBDA l : iter_filter_mindepth(P, l)),
        LAMBDA l : iter_build_consens(P, l)),
        LAMBDA l : iter_filter_heteros(P, l)),
        LAMBDA l : iter_filter_alleles(P, l)).loc

\* collect_data, lines 380-381: counts of C, A, T, G at every site, cast
\* to np.uint16
Catg(seqs) ==
    Tab(NCols(seqs), LAMBDA c :
        <<ColCount(seqs, c, 67) % UInt16, ColCount(seqs, c, 65) % UInt16,
          ColCount(seqs, c, 84) % UInt16, ColCount(seqs, c, 71) % UInt16>>)

\* Processor.__init__: the counters, filters and output lists
InitCounters == [nheteros |-> 0, nsites |-> 0, nconsens |-> 0]
InitFilters == [k \in FilterKeys |-> 0]

\* a Locus that has entered the chain
Entered == loc # NoLoc
\* the Locus of the last cluster reached collect_data and was stored
Stored == Entered /\ loc.outcome = "yield"

\* collect_data applied to one cluster pulled through the chain: either the
\* Locus is filtered (a filter counter advances), or the increment of the
\* undeclared key "mindepth" raises KeyError out of Processor.run, or the
\* Locus is stored
Collect(clusters) ==
    /\ s5pc = "iter"
    /\ nread < MaxClusters
    /\ \E clust \in clusters :
       \E pos0 \in (IF params.is_ref THEN RefStarts ELSE {0}) :
       \E l \in {RunChain(params, clust, pos0)} :
         /\ loc' = l
         /\ nread' = nread + 1
         /\ IF l.outcome = "yield"
            THEN /\ counters' =
                      [nconsens |-> counters.nconsens + 1,
                       nheteros |-> counters.nheteros + l.nheteros,
                       nsites |-> counters.nsites + Len(l.consens)
                          - Cardinality({c \in 1..Len(l.consens) : l.consens[c] = 78})
                          - Cardinality({c \in 1..Len(l.consens) : l.consens[c] = 110})]
                 /\ consens_seqs' = Append(consens_seqs, l.consens)
                 /\ nalleles' = Append(nalleles, l.nalleles)
                 /\ refpos' = Append(refpos, l.refpos)
                 /\ catgs' = Append(catgs, Catg(l.seqs))
                 /\ UNCHANGED <<filters, s5pc>>
            ELSE IF l.outcome \in FilterKeys
            THEN /\ filters' = [filters EXCEPT ![l.outcome] = @ + 1]
                 /\ UNCHANGED <<counters, consens_seqs, nalleles, refpos, catgs, s5pc>>
            ELSE /\ s5pc' = "KeyError"
                 /\ UNCHANGED <<counters, filters, consens_seqs, nalleles, refpos, catgs>>
    /\ UNCHANGED <<params, sample, stlog, s7, s3, dirvars>>

\* collect_data on a chunk file of shallow and deep clusters
ProcessCluster == Collect(ChunkClusters(MaxRows))

\* clusters for the allele count: rows over A, C and N, a row present once
\* or HighReps times
HighReps == 10
AlleleClusters(maxrows) ==
    UNION {
        {cl \in [1..r -> [seq : [1..MaxCols -> {65, 67, 78}], reps : {1, HighReps}]] :
            \A i \in 1..r : \A j \in 1..r :
                i < j => SeqCode(cl[i].seq) < SeqCode(cl[j].seq)}
        : r \in 1..maxrows}

\* collect_data on a chunk file of such clusters
ProcessAlleleCluster == Collect(AlleleClusters(MaxRows))

\* write_chunk, once iter_clusters is exhausted: the catgs dataset holds
\* each array cut to maxlen sites and padded with zeros; the denovo branch
\* then writes the consens file, the reference branch reads attributes
\* (refarr, storeseq) the Processor never sets
write_chunk ==
    /\ s5pc = "iter"
    /\ catgs' = Tab(Len(catgs), LAMBDA i :
                   Tab(params.max_frag, LAMBDA c :
                       IF c <= Len(catgs[i]) THEN catgs[i][c] ELSE <<0, 0, 0, 0>>))
    /\ s5pc' = IF params.is_ref THEN "AttributeError" ELSE "written"
    /\ UNCHANGED <<params, nread, loc, counters, filters, consens_seqs,
                   nalleles, refpos, sample, stlog, s7, s3, dirvars>>

\* ------------------------------------------------------------------------
\* Stage 3: build_clusters (clustmap_within_denovo_utils.py).
\*
\* A read is named by a number; its header carries the name, the size= of
\* the dereplicated read and, in a cluster, a mark: "*" for the seed, the
\* orientation "+" or "-" for a hit.  A row of a cluster is the header
\* (the sequence line travels with it).  A text file is its lines, a row or
\* a "//" line, and whether the text ends with a newline.
\* ------------------------------------------------------------------------
MaxSeeds == 3       \* centroids reported by the clusterer
MaxHits == 3        \* matched reads reported by the clusterer
MaxSize == 2        \* size= of a dereplicated read
\* the period of the write-and-clear of build_clusters (10000 at lines 431
\* and 470), scaled to the number of clusters explored
FlushEvery == 2
\* maxseqs of persistent_popen_align3 (200 at the call of line 561), scaled
\* to the number of rows explored
maxseqs == 2

\* data.max_indels: the default named by the docstring of build_clusters
max_indels == 6
IndelCounts == {max_indels, max_indels + 1}

SepLine == [name |-> 0, size |-> 0, mark |-> "//"]
IsSep(ln) == ln.mark = "//"
EmptyText == [lines |-> <<>>, nl |-> FALSE]

\* sorted(rows, key=size, reverse=True): stable, larger sizes first
RECURSIVE InsertBySize(_, _)
InsertBySize(sorted, r) ==
    IF sorted = <<>> THEN <<r>>
    ELSE IF Head(sorted).size >= r.size
         THEN <<Head(sorted)>> \o InsertBySize(Tail(sorted), r)
         ELSE <<r>> \o sorted

RECURSIVE SortBySize(_)
SortBySize(rows) ==
    IF rows = <<>> THEN <<>>
    ELSE InsertBySize(SortBySize(SubSeq(rows, 1, Len(rows) - 1)), rows[Len(rows)])

\* "\n//\n//\n".join(seqlist), as lines
RECURSIVE JoinSep(_)
JoinSep(seqlist) ==
    IF seqlist = <<>> THEN <<>>
    ELSE IF Len(seqlist) = 1 THEN seqlist[1]
    ELSE seqlist[1] \o <<SepLine, SepLine>> \o JoinSep(Tail(seqlist))

\* clustsout.write("\n//\n//\n".join(seqlist) + "\n//\n//\n")
WriteWithSep(text, seqlist) ==
    [lines |-> text.lines \o JoinSep(seqlist) \o <<SepLine, SepLine>>, nl |-> TRUE]

\* clustsout.write("\n//\n//\n".join(seqlist))
WriteNoSep(text, seqlist) ==
    [lines |-> text.lines \o JoinSep(seqlist), nl |-> FALSE]

\* build_clusters, lines 396-450: the loop over the sorted userout lines
\* from line i on; st holds the loop's locals and the text written so far
RECURSIVE HitsLoop(_, _, _)
HitsLoop(usort, i, st) ==
    IF i > Len(usort) THEN st
    ELSE
      LET ln == usort[i]
          newseed == ln.seed # st.lastseed
          \* lines 417-428: store the finished cluster, hits sorted by size
          store == newseed /\ st.fseqs # <<>>
          seqlist1 == IF store
                      THEN Append(st.seqlist,
                                  <<st.fseqs[1]>> \o SortBySize(Tail(st.fseqs)))
                      ELSE st.seqlist
          seqsize1 == IF store THEN st.seqsize + 1 ELSE st.seqsize
          \* lines 431-436: occasionally write the stored clusters
          flush == newseed /\ seqsize1 % FlushEvery = 0 /\ seqlist1 # <<>>
          out1 == IF flush THEN WriteWithSep(st.out, seqlist1) ELSE st.out
          seqlist2 == IF flush THEN <<>> ELSE seqlist1
          \* lines 439-440: the new seed on top
          fseqs1 == IF newseed
                    THEN <<[name |-> ln.seed, size |-> ln.seedsize, mark |-> "*"]>>
                    ELSE st.fseqs
          \* lines 449-450: the hit, unless it has too many indels
          fseqs2 == IF ln.ind <= max_indels
                    THEN Append(fseqs1, [name |-> ln.hit, size |-> ln.size, mark |-> ln.ori])
                    ELSE fseqs1
      IN HitsLoop(usort, i + 1,
            [lastseed |-> ln.seed, fseqs |-> fseqs2, seqlist |-> seqlist2,
             seqsize |-> seqsize1, out |-> out1,
             seedsseen |-> st.seedsseen \cup {ln.seed},
             flushed |-> st.flushed \/ flush])

\* variant: every htemp entry is written
IsNewSeedAlways(name, seedsseen) == TRUE

\* line 477: the htemp entry is written unless its name was seen as a seed
IsNewSeed(name, seedsseen) == name \notin seedsseen

\* build_clusters, lines 459-479: the loop over the htemp entries from i on
RECURSIVE SeedsLoop(_, _, _, _)
SeedsLoop(htemp, seedsseen, i, st) ==
    IF i > Len(htemp) THEN st
    ELSE
      LET flush == st.seqsize % FlushEvery = 0 /\ st.seqlist # <<>>
          out1 == IF flush THEN WriteWithSep(st.out, st.seqlist) ELSE st.out
          seqlist1 == IF flush THEN <<>> ELSE st.seqlist
          new == IsNewSeed(htemp[i].name, seedsseen)
      IN SeedsLoop(htemp, seedsseen, i + 1,
            [seqlist |-> IF new
                         THEN Append(seqlist1, <<[htemp[i] EXCEPT !.mark = "*"]>>)
                         ELSE seqlist1,
             seqsize |-> IF new THEN st.seqsize + 1 ELSE st.seqsize,
             out |-> out1,
             flushed |-> st.flushed \/ flush])

\* build_clusters(data, sample): the text of <sample>.clust.txt
build_clusters(usort, htemp) ==
    LET h == HitsLoop(usort, 1,
                [lastseed |-> 0, fseqs |-> <<>>, seqlist |-> <<>>, seqsize |-> 0,
                 out |-> EmptyText, seedsseen |-> {}, flushed |-> FALSE])
        \* lines 453-456: whatever is left over
        left == IF h.fseqs # <<>> THEN Append(h.seqlist, h.fseqs) ELSE h.seqlist
        out1 == IF left # <<>> THEN WriteWithSep(h.out, left) ELSE h.out
        s == SeedsLoop(htemp, h.seedsseen, 1,
                [seqlist |-> <<>>, seqsize |-> 0, out |-> out1, flushed |-> FALSE])
        \* lines 482-483
        out2 == IF s.seqlist # <<>> THEN WriteNoSep(s.out, s.seqlist) ELSE s.out
    IN [text |-> out2, flushed1 |-> h.flushed, flushed2 |-> s.flushed]

\* ------------------------------------------------------------------------
\* Stage 3: muscle_chunker and the reading of a chunk by align_and_parse
\* ------------------------------------------------------------------------

\* text.strip(): the trailing newline goes
Strip(text) == [text EXCEPT !.nl = FALSE]

\* line j of the text is terminated by a newline
Terminated(text, j) == j < Len(text.lines) \/ text.nl

\* text.split("//\n//\n"): the pieces between the occurrences of two
\* consecutive terminated "//" lines, scanned left to right from line i;
\* cur holds the lines of the piece being read
RECURSIVE SplitFrom(_, _, _)
SplitFrom(text, i, cur) ==
    IF i > Len(text.lines)
    THEN <<[lines |-> cur, nl |-> cur # <<>> /\ text.nl]>>
    ELSE IF /\ i < Len(text.lines)
            /\ IsSep(text.lines[i]) /\ IsSep(text.lines[i + 1])
            /\ Terminated(text, i + 1)
    THEN <<[lines |-> cur, nl |-> cur # <<>>]>> \o SplitFrom(text, i + 2, <<>>)
    ELSE SplitFrom(text, i + 1, Append(cur, text.lines[i]))

Split(text) == SplitFrom(text, 1, <<>>)

\* "//\n//\n".join(pieces), as a text
RECURSIVE JoinPieces(_)
JoinPieces(ps) ==
    IF ps = <<>> THEN EmptyText
    ELSE IF Len(ps) = 1 THEN ps[1]
    ELSE LET rest == JoinPieces(Tail(ps))
         IN [lines |-> ps[1].lines \o <<SepLine, SepLine>> \o rest.lines,
             nl |-> IF rest.lines = <<>> THEN TRUE ELSE rest.nl]

\* the number of chunk files written by muscle_chunker (line 514)
NChunks == 10

\* muscle_chunker(data, sample): the texts of <sample>_chunk_<idx>.ali
muscle_chunker(clustfile) ==
    LET nloci == Cardinality({j \in 1..Len(clustfile.lines) :
                                 IsSep(clustfile.lines[j])}) \div 2
        optim == (nloci \div 20) + (nloci % 20)
        inc == optim \div 10
        inclusts == Split(Strip(clustfile))
        \* the pieces consumed before chunk idx, and its share
        this(idx) == optim + (idx * inc)
        before(idx) == SumSeq([k \in 1..idx |-> this(k - 1)])
        from(idx) == Min(before(idx), Len(inclusts)) + 1
        upto(idx) == IF idx = NChunks - 1 THEN Len(inclusts)
                     ELSE Min(before(idx) + this(idx), Len(inclusts))
    IN [k \in 1..NChunks |-> JoinPieces(SubSeq(inclusts, from(k - 1), upto(k - 1)))]

\* align_and_parse, lines 542-549: the clusters of a chunk file
ReadClusts(chunk) == SelectSeq(Split(chunk), LAMBDA piece : piece.lines # <<>>)

\* ------------------------------------------------------------------------
\* Stage 3: persistent_popen_align3
\* ------------------------------------------------------------------------

\* the rows of a cluster string (the lines holding a ">")
RowsOf(piece) == SelectSeq(piece.lines, LAMBDA ln : ~IsSep(ln))
\* its stray "//" lines
StraysOf(piece) == SelectSeq(piece.lines, LAMBDA ln : IsSep(ln))

\* clust.split()[:maxseqs * 2], as (name, sequence) token pairs: a row is
\* one pair, two stray "//" tokens make one more
TokenPairs(piece) ==
    LET pairs == RowsOf(piece) \o
                 [k \in 1..(Len(StraysOf(piece)) \div 2) |-> SepLine]
    IN SubSeq(pairs, 1, Min(Len(pairs), maxseqs))

\* all orders of the rows of a sequence
Perms(rows) ==
    {[i \in 1..Len(rows) |-> rows[f[i]]] :
        f \in {g \in [1..Len(rows) -> 1..Len(rows)] :
                 \A a \in 1..Len(rows) : \A b \in 1..Len(rows) : a # b => g[a] # g[b]}}

\* the aligner (muscle, an external program) prints the records it was
\* given, aligned, in an order of its own; or nothing when it fails
MuscleOutputs(pairs) ==
    Perms(SelectSeq(pairs, LAMBDA ln : ~IsSep(ln))) \cup {<<>>}

\* variant: the rows by decreasing size, the seed not lifted
SeedOnTopBySizeOnly(lines) == SortBySize(lines)

\* lines 665-672 and 714-720: the row whose header ends with "*" on top,
\* the others by decreasing size
SeedOnTop(lines) ==
    LET stars == SelectSeq(lines, LAMBDA ln : ln.mark = "*")
        seed == stars[1]
        at == CHOOSE i \in 1..Len(lines) :
                 lines[i] = seed /\ \A j \in 1..(i - 1) : lines[j] # seed
        rest == SubSeq(lines, 1, at - 1) \o SubSeq(lines, at + 1, Len(lines))
    IN <<seed>> \o SortBySize(rest)

\* gbs_trim(align1) as seen on the headers alone: every row keeps its name
\* and its place (lines 880-886); the cut of the sequences is gbs_trim below
gbs_trim_names(align1) == align1

\* one pass of the loop of persistent_popen_align3 over a cluster, given
\* whether every sequence holds the "nnnn" pair separator and what the
\* aligner printed: [res, rows, branch] with res "append", "skip"
\* (ValueError branch) or "raise" (IndexError out of the except branch)
AlignOne(piece, allpaired, out1, out2, is_gbs) ==
    IF Len(RowsOf(piece)) = 1
    THEN [res |-> "append", rows |-> piece.lines, branch |-> "single"]
    ELSE
      LET pairs == TokenPairs(piece)
          paired == allpaired /\ \A k \in 1..Len(pairs) : ~IsSep(pairs[k])
      IN IF paired
         THEN IF out1 = <<>> \/ out2 = <<>>
              THEN [res |-> "skip", rows |-> <<>>, branch |-> "pe"]
              ELSE [res |-> "append", rows |-> SeedOnTop(out1), branch |-> "pe"]
         ELSE IF out1 = <<>> \/ SelectSeq(out1, LAMBDA ln : ln.mark = "*") = <<>>
              THEN [res |-> "raise", rows |-> <<>>, branch |-> "se"]
              ELSE [res |-> "append",
                    rows |-> IF is_gbs THEN gbs_trim_names(SeedOnTop(out1))
                             ELSE SeedOnTop(out1),
                    branch |-> "se"]

\* ------------------------------------------------------------------------
\* Stage 3: gbs_trim on the aligned sequences.  A row of align1 is its
\* name, the mark of its header ("*" seed, "+" or "-" orientation) and its
\* aligned sequence, a gap (45, "-") or a base per column.
\* ------------------------------------------------------------------------
MaxAlnRows == 3     \* rows of an aligned cluster
MaxAlnWidth == 3    \* columns of an alignment
Gap == 45

\* [i != "-" for i in seq].index(True)
LeadingGaps(seq) ==
    CHOOSE i \in 0..(Len(seq) - 1) :
        seq[i + 1] # Gap /\ \A j \in 1..i : seq[j] = Gap

\* [i != "-" for i in seq[::-1]].index(True)
TrailingGaps(seq) ==
    CHOOSE i \in 0..(Len(seq) - 1) :
        seq[Len(seq) - i] # Gap /\ \A j \in 1..i : seq[Len(seq) + 1 - j] = Gap

\* variant of lines 869-875: the most extended reverse match sets the cut
SubrightLeast(revs) ==
    IF revs # <<>>
    THEN SetMin({TrailingGaps(revs[i].seq) : i \in 1..Len(revs)})
    ELSE 0

\* lines 869-875: subright, the trailing gaps of the least extended
\* reverse-complement match
Subright(revs) ==
    IF revs # <<>>
    THEN SetMax({TrailingGaps(revs[i].seq) : i \in 1..Len(revs)})
    ELSE 0

\* gbs_trim(align1), lines 856-886
gbs_trim(align1) ==
    LET seed == SelectSeq(align1, LAMBDA r : r.mark = "*")[1]
        leftmost == LeadingGaps(seed.seq)
        revs == SelectSeq(align1, LAMBDA r : r.mark = "-")
        rightmost == Len(seed.seq) - Subright(revs)
    IN IF rightmost > leftmost
       THEN Tab(Len(align1), LAMBDA i :
                [align1[i] EXCEPT !.seq = SubSeq(@, leftmost + 1, rightmost)])
       ELSE Tab(Len(align1), LAMBDA i : [align1[i] EXCEPT !.seq = <<78, 78, 78>>])

\* the aligned sequences of a row: one base at least, gaps around and inside
AlnSeqs(width) == {q \in [1..width -> {Gap, 65}] : \E k \in 1..width : q[k] # Gap}

\* align1 as persistent_popen_align3 hands it over (lines 714-732): rows of
\* one width, the seed on top, the hits in either orientation
Alignments(maxrows, maxwidth) ==
    UNION {
        {[i \in 1..n |-> [name |-> i, mark |-> IF i = 1 THEN "*" ELSE mk[i],
                          seq |-> sq[i]]] :
            mk \in [1..n -> {"+", "-"}], sq \in [1..n -> AlnSeqs(w)]}
        : <<n, w>> \in (1..maxrows) \X (1..maxwidth)}

StartGbs(align1) == [pc |-> "gbs", align1 |-> align1, newalign1 |-> <<>>]

\* persistent_popen_align3, lines 731-732: align1 = gbs_trim(align1)
GbsTrim ==
    /\ s3.pc = "gbs"
    /\ s3' = [s3 EXCEPT !.pc = "trimmed", !.newalign1 = gbs_trim(s3.align1)]
    /\ UNCHANGED <<s5vars, sample, stlog, s7, dirvars>>

NextGbs == GbsTrim

\* ------------------------------------------------------------------------
\* Stage 3: inputs and actions
\* ------------------------------------------------------------------------

\* a line of the sorted userout file (sort -k 2 groups the lines of a seed;
\* within a seed the order follows the remaining columns).  Seeds are named
\* 1..nseeds, the hit of line i is named MaxSeeds + i.  A centroid is at
\* least as abundant as the reads matched to it.
HitAttrs == [size : 1..MaxSize, ind : IndelCounts, ori : {"+", "-"}]

UsortFiles(nseeds) ==
    UNION {
        {[i \in 1..n |-> [hit |-> MaxSeeds + i, size |-> at[i].size,
                          seed |-> sd[i], seedsize |-> MaxSize,
                          ind |-> at[i].ind, ori |-> at[i].ori]] :
            at \in [1..n -> HitAttrs],
            sd \in {f \in [1..n -> 1..nseeds] :
                      \A i \in 1..n : \A j \in 1..n : i < j => f[i] <= f[j]}}
        : n \in 0..MaxHits}

\* the htemp file: every centroid, matched or not
Htemp(nseeds) == [k \in 1..nseeds |-> [name |-> k, size |-> MaxSize, mark |-> ""]]

IdleS3 == [pc |-> "idle"]

StartS3(nseeds, usort, is_gbs) ==
    [pc |-> "start", nseeds |-> nseeds, usort |-> usort, is_gbs |-> is_gbs,
     clustfile |-> EmptyText, flushed |-> FALSE,
     chunks |-> <<>>, cidx |-> 0, clusts |-> <<>>, aligned |-> <<>>,
     branches |-> {}, results |-> <<>>]

\* build_clusters(data, sample)
BuildClusters ==
    /\ s3.pc = "start"
    /\ LET b == build_clusters(s3.usort, Htemp(s3.nseeds))
       IN s3' = [s3 EXCEPT !.pc = "built", !.clustfile = b.text,
                           !.flushed = b.flushed1 \/ b.flushed2]
    /\ UNCHANGED <<s5vars, sample, stlog, s7, dirvars>>

\* muscle_chunker(data, sample)
MuscleChunker ==
    /\ s3.pc = "built"
    /\ s3' = [s3 EXCEPT !.pc = "chunked", !.chunks = muscle_chunker(s3.clustfile),
                        !.cidx = 1]
    /\ UNCHANGED <<s5vars, sample, stlog, s7, dirvars>>

\* the first chunk file from cidx on that holds a cluster; NChunks + 1
\* when there is none
NextChunk(chunks, cidx) ==
    IF \E k \in cidx..NChunks : ReadClusts(chunks[k]) # <<>>
    THEN CHOOSE k \in cidx..NChunks :
            /\ ReadClusts(chunks[k]) # <<>>
            /\ \A j \in cidx..(k - 1) : ReadClusts(chunks[j]) = <<>>
    ELSE NChunks + 1

\* align_and_parse(handle), lines 540-561, on the chunk files in turn: a
\* call on a chunk without clusters returns 0 and writes nothing (lines
\* 548-549); the clusters of the next chunk that has any go to
\* persistent_popen_align3
AlignAndParse ==
    /\ s3.pc = "chunked"
    /\ s3.cidx <= NChunks
    /\ \E k \in {NextChunk(s3.chunks, s3.cidx)} :
         s3' = [s3 EXCEPT
                  !.results = @ \o Tab(k - s3.cidx, LAMBDA j : <<>>),
                  !.cidx = k,
                  !.pc = IF k <= NChunks THEN "align" ELSE @,
                  !.clusts = IF k <= NChunks THEN ReadClusts(s3.chunks[k]) ELSE <<>>,
                  !.aligned = <<>>]
    /\ UNCHANGED <<s5vars, sample, stlog, s7, dirvars>>

\* persistent_popen_align3: one pass of the loop over clusts
AlignCluster ==
    /\ s3.pc = "align"
    /\ s3.clusts # <<>>
    /\ LET piece == Head(s3.clusts) IN
       \E allpaired \in BOOLEAN :
       \E out1 \in MuscleOutputs(TokenPairs(piece)) :
       \E out2 \in MuscleOutputs(TokenPairs(piece)) :
         LET r == AlignOne(piece, allpaired, out1, out2, s3.is_gbs)
         IN s3' = [s3 EXCEPT
                     !.pc = IF r.res = "raise" THEN "IndexError" ELSE @,
                     !.clusts = Tail(@),
                     !.branches = @ \cup {r.branch},
                     !.aligned = IF r.res = "append" THEN Append(@, r.rows) ELSE @]
    /\ UNCHANGED <<s5vars, sample, stlog, s7, dirvars>>

\* persistent_popen_align3 returns the aligned clusters of the chunk
AlignReturn ==
    /\ s3.pc = "align"
    /\ s3.clusts = <<>>
    /\ s3' = [s3 EXCEPT !.pc = "chunked", !.cidx = @ + 1,
                        !.results = Append(@, s3.aligned)]
    /\ UNCHANGED <<s5vars, sample, stlog, s7, dirvars>>

NextS3 == BuildClusters \/ MuscleChunker \/ AlignAndParse \/ AlignCluster \/ AlignReturn

\* ------------------------------------------------------------------------
\* Stage 3: persistent_popen_align3 and its helper shell, step by step.
\* A cluster is the number of its rows and, per row, whether the sequence
\* holds the "nnnn" pair separator.  The pipes of the shell are queues: a
\* command is named by the cluster and the call site that wrote it, the
\* text on stdout up to a "//" line by the command that printed it and
\* whether the aligner printed records or nothing.
\* ------------------------------------------------------------------------
MaxProcRows == 3       \* rows of a cluster
MaxProcClusters == 2   \* clusters of a chunk

ProcClusters(maxrows) ==
    UNION {[1..n -> BOOLEAN] : n \in 1..maxrows}

ProcChunks(maxclusters, maxrows) ==
    UNION {[1..n -> ProcClusters(maxrows)] : n \in 1..maxclusters}

\* lines 597-605: the shell is open, no cluster is read yet
StartProc(clusts) ==
    [pc |-> "loop", clusts |-> clusts, k |-> 0, ncmd |-> 0, out1 |-> "",
     issued |-> <<>>, stdin |-> <<>>, stdout |-> <<>>, sent |-> <<>>,
     got |-> <<>>, aligned |-> <<>>, open |-> TRUE, waited |-> FALSE]

\* lines 618-626: i.split("nnnn")[1] of the first maxseqs sequences
SplitsAtInsert(clust) ==
    \A i \in 1..Min(Len(clust), maxseqs) : clust[i]

\* the place of the loop after a write: the read loop that follows it
\* (lines 640-641, 653-654, 703-704)
AfterWrite(pc) ==
    CASE pc = "pe_write1" -> "pe_read1"
      [] pc = "pe_write2" -> "pe_read2"
      [] OTHER -> "se_read"

\* for clust in clusts (lines 606-626): a cluster of one row is appended
\* as it is; else the paired split is tried, an IndexError leads to the
\* single-end branch
ProcNextCluster ==
    /\ s3.pc = "loop"
    /\ s3.k < Len(s3.clusts)
    /\ LET clust == s3.clusts[s3.k + 1] IN
       s3' = IF Len(clust) = 1
             THEN [s3 EXCEPT !.k = @ + 1, !.issued = Append(@, 0),
                             !.aligned = Append(@, s3.k + 1)]
             ELSE [s3 EXCEPT !.k = @ + 1, !.ncmd = 0,
                             !.pc = IF SplitsAtInsert(clust) THEN "pe_write1"
                                    ELSE "se_write"]
    /\ UNCHANGED <<s5vars, sample, stlog, s7, dirvars>>

\* proc.stdin.write(cmd.encode()) at lines 636, 649 and 700
ProcWrite ==
    /\ s3.pc \in {"pe_write1", "pe_write2", "se_write"}
    /\ s3' = [s3 EXCEPT !.pc = AfterWrite(s3.pc), !.ncmd = @ + 1,
                        !.stdin = Append(@, <<s3.k, s3.pc>>),
                        !.sent = Append(@, <<s3.k, s3.pc>>)]
    /\ UNCHANGED <<s5vars, sample, stlog, s7, dirvars>>

\* the helper shell runs the oldest command of its stdin: the aligner
\* prints its records, or nothing when it fails, then echo prints "//"
ShellRun ==
    /\ s3.pc # "idle"
    /\ s3.open
    /\ s3.stdin # <<>>
    /\ \E out \in {"records", "nothing"} :
         s3' = [s3 EXCEPT !.stdin = Tail(@),
                          !.stdout = Append(@, [cmd |-> Head(s3.stdin), out |-> out])]
    /\ UNCHANGED <<s5vars, sample, stlog, s7, dirvars>>

\* for line in iter(proc.stdout.readline, b'//\n'), and what follows it.
\* Paired (lines 657-683): dict() of a record without a newline is a
\* ValueError, the cluster is skipped with a warning (lines 686-690).
\* Single-end (lines 707-735): the seed of no record is an IndexError
\* inside the except clause, it leaves the function.
ProcRead ==
    /\ s3.pc \in {"pe_read1", "pe_read2", "se_read"}
    /\ s3.stdout # <<>>
    /\ LET rd == Head(s3.stdout)
           base == [s3 EXCEPT !.stdout = Tail(@), !.got = Append(@, rd.cmd)]
       IN s3' =
            CASE s3.pc = "pe_read1" ->
                   [base EXCEPT !.pc = "pe_write2", !.out1 = rd.out]
              [] s3.pc = "pe_read2" ->
                   IF s3.out1 = "nothing" \/ rd.out = "nothing"
                   THEN [base EXCEPT !.pc = "loop", !.out1 = "",
                                     !.issued = Append(@, s3.ncmd)]
                   ELSE [base EXCEPT !.pc = "loop", !.out1 = "",
                                     !.issued = Append(@, s3.ncmd),
                                     !.aligned = Append(@, s3.k)]
              [] OTHER ->
                   IF rd.out = "nothing"
                   THEN [base EXCEPT !.pc = "IndexError",
                                     !.issued = Append(@, s3.ncmd)]
                   ELSE [base EXCEPT !.pc = "loop",
                                     !.issued = Append(@, s3.ncmd),
                                     !.aligned = Append(@, s3.k)]
    /\ UNCHANGED <<s5vars, sample, stlog, s7, dirvars>>

\* lines 737-745: the pipes are closed, the shell is waited for, the
\* aligned clusters are returned
ProcCleanup ==
    /\ s3.pc = "loop"
    /\ s3.k = Len(s3.clusts)
    /\ s3' = [s3 EXCEPT !.pc = "returned", !.open = FALSE, !.waited = TRUE]
    /\ UNCHANGED <<s5vars, sample, stlog, s7, dirvars>>

NextProc == ProcNextCluster \/ ProcWrite \/ ShellRun \/ ProcRead \/ ProcCleanup

\* ------------------------------------------------------------------------
\* Stage 3: align_and_parse after persistent_popen_align3 has returned: the
\* indel filter, declone_clusters and the .aligned file (lines 559-588).
\* A row of an aligned cluster is its header fields and the number of
\* internal "-" of its aligned sequence; the header of a sample with
\* duplicate tags reads name;tag;size=N;mark.
\* ------------------------------------------------------------------------
MaxDeclRows == 2       \* rows of an aligned cluster
MaxDeclClusters == 2   \* aligned clusters of a chunk
MaxTag == 2            \* distinct duplicate tags
max_internal_indels == 5

\* aligned_indel_filter(clust, max_internal_indels), single-end branch
aligned_indel_filter(clust, maxind) ==
    \E i \in 1..Len(clust) : clust[i].ind > maxind

\* the sum of the sizes of the rows of the locus that carry the tag (lines
\* 783-787)
TagSize(locus, tag) ==
    SumSeq(Tab(Len(locus), LAMBDA i : IF locus[i].tag = tag THEN locus[i].size ELSE 0))

\* declone_clusters, one locus: kept as it is when no tag repeats (lines
\* 774-777); else the first row of every tag, in the original order, with
\* the header rewritten as name;tag;size=<sum>; (lines 813-821)
DecloneLocus(locus) ==
    IF Cardinality({locus[i].tag : i \in 1..Len(locus)}) = Len(locus)
    THEN locus
    ELSE Tab(Len(SelectIdx(locus, LAMBDA i : \A j \in 1..(i - 1) : locus[j].tag # locus[i].tag)),
             LAMBDA k :
               LET row == SelectIdx(locus, LAMBDA i :
                              \A j \in 1..(i - 1) : locus[j].tag # locus[i].tag)[k]
               IN [row EXCEPT !.size = TagSize(locus, row.tag), !.mark = ""])

\* declone_clusters(aligned)
declone_clusters(aligned) == Tab(Len(aligned), LAMBDA k : DecloneLocus(aligned[k]))

\* the clusters persistent_popen_align3 returns: the seed row on top, the
\* rows by decreasing size, rows named in that order
AlignedLoci ==
    UNION {
        {[i \in 1..n |-> [name |-> i, tag |-> tg[i], size |-> sz[i],
                          mark |-> IF i = 1 THEN "*" ELSE "+", ind |-> nd[i]]] :
            tg \in [1..n -> 1..MaxTag],
            sz \in {f \in [1..n -> 1..MaxSize] :
                      \A i \in 1..n : \A j \in 1..n : i < j => f[i] >= f[j]},
            nd \in [1..n -> {0, max_internal_indels + 1}]}
        : n \in 1..MaxDeclRows}

AlignedChunks ==
    UNION {[1..n -> AlignedLoci] : n \in 0..MaxDeclClusters}

StartParse(aligned, declone) ==
    [pc |-> "aligned", aligned |-> aligned, declone |-> declone,
     refined |-> <<>>, drefined |-> <<>>, outfile |-> <<>>, highindels |-> 0]

\* align_and_parse, lines 562-588: refined holds the clusters that pass the
\* indel filter; with declone the decloned clusters are computed into
\* drefined; the file is written from refined, when refined is not empty
ParseAndWrite ==
    /\ s3.pc = "aligned"
    /\ \E refined \in {SelectSeq(s3.aligned, LAMBDA c :
                          ~aligned_indel_filter(c, max_internal_indels))} :
         s3' = [s3 EXCEPT
                  !.pc = IF refined # <<>> THEN "written" ELSE "returned",
                  !.refined = refined,
                  !.highindels = Len(s3.aligned) - Len(refined),
                  !.drefined = IF s3.declone THEN declone_clusters(refined) ELSE <<>>,
                  !.outfile = refined]
    /\ UNCHANGED <<s5vars, sample, stlog, s7, dirvars>>

NextParse == ParseAndWrite

\* ------------------------------------------------------------------------
\* Stage 3: aligned_indel_filter on the text of the aligned sequences, and
\* the loop of align_and_parse over it.  A row is its name and its aligned
\* sequence: gaps (45), bases and, in a pair, the run "nnnn" (110).
\* ------------------------------------------------------------------------
MaxGapRows == 2        \* rows of an aligned cluster
MaxGapClusters == 2    \* aligned clusters of a chunk
InsertChar == 110

\* the index of the first "nnnn" of seq, 0 when there is none
FindInsert(seq) ==
    IF \E i \in 1..(Len(seq) - 3) : \A d \in 0..3 : seq[i + d] = InsertChar
    THEN CHOOSE i \in 1..(Len(seq) - 3) :
            /\ \A d \in 0..3 : seq[i + d] = InsertChar
            /\ \A j \in 1..(i - 1) : \E d \in 0..3 : seq[j + d] # InsertChar
    ELSE 0

\* seq.split("nnnn")
RECURSIVE SplitInsert(_)
SplitInsert(seq) ==
    IF FindInsert(seq) = 0 THEN <<seq>>
    ELSE <<SubSeq(seq, 1, FindInsert(seq) - 1)>>
            \o SplitInsert(SubSeq(seq, FindInsert(seq) + 4, Len(seq)))

\* seq.rstrip("-") and seq.lstrip("-")
RECURSIVE Rstrip(_)
Rstrip(seq) ==
    IF seq # <<>> /\ seq[Len(seq)] = Gap THEN Rstrip(SubSeq(seq, 1, Len(seq) - 1))
    ELSE seq

RECURSIVE Lstrip(_)
Lstrip(seq) ==
    IF seq # <<>> /\ seq[1] = Gap THEN Lstrip(Tail(seq)) ELSE seq

\* i.rstrip("-").lstrip("-").count("-")
IntIndels(seq) ==
    Len(SelectSeq(Lstrip(Rstrip(seq)), LAMBDA c : c = Gap))

\* variant: a cluster is reported from max_internal_indels on
TooManyIndelsFrom(intindels, max_indels_in) ==
    \E k \in 1..Len(intindels) : intindels[k] >= max_indels_in

\* max(intindels) > max_internal_indels (lines 902 and 907)
TooManyIndels(intindels, max_indels_in) ==
    \E k \in 1..Len(intindels) : intindels[k] > max_indels_in

\* aligned_indel_filter(clust, max_internal_indels) on the sequences: the
\* paired count when every sequence splits at "nnnn" (lines 897-903), the
\* count over the whole sequences after the IndexError (lines 904-908)
aligned_indel_filter_text(clust, max_indels_in) ==
    IF \A i \in 1..Len(clust) : Len(SplitInsert(clust[i].seq)) >= 2
    THEN TooManyIndels(
             Tab(Len(clust), LAMBDA i : IntIndels(SplitInsert(clust[i].seq)[1]))
                 \o Tab(Len(clust), LAMBDA i : IntIndels(SplitInsert(clust[i].seq)[2])),
             max_indels_in)
    ELSE TooManyIndels(Tab(Len(clust), LAMBDA i : IntIndels(clust[i].seq)),
                       max_indels_in)

\* an aligned read or half of a pair: max_internal_indels gaps between two
\* bases, with and without a gap at both edges, and one gap more between
\* the bases
Gaps(n) == Tab(n, LAMBDA k : Gap)
AlnHalves ==
    {Gaps(eg[1]) \o <<65>> \o Gaps(eg[2]) \o <<65>> \o Gaps(eg[1]) :
        eg \in {<<0, max_internal_indels>>, <<1, max_internal_indels>>,
                <<1, max_internal_indels + 1>>}}
AlnTexts ==
    AlnHalves \cup {a \o Tab(4, LAMBDA k : InsertChar) \o b : a \in AlnHalves, b \in AlnHalves}

GapClusters(maxrows) ==
    UNION {{[i \in 1..n |-> [name |-> i, seq |-> sq[i]]] : sq \in [1..n -> AlnTexts]}
           : n \in 1..maxrows}

GapChunks(maxclusters, maxrows) ==
    UNION {[1..n -> GapClusters(maxrows)] : n \in 1..maxclusters}

StartIndel(aligned) ==
    [pc |-> "aligned", aligned |-> aligned, refined |-> <<>>,
     outfile |-> <<>>, highindels |-> 0]

\* align_and_parse, lines 562-588: the clusters that pass the filter are
\* written, when there is any; the number of the others is returned
IndelFilterAndWrite ==
    /\ s3.pc = "aligned"
    /\ \E refined \in {SelectSeq(s3.aligned, LAMBDA c :
                          ~aligned_indel_filter_text(c, max_internal_indels))} :
         s3' = [s3 EXCEPT
                  !.pc = IF refined # <<>> THEN "written" ELSE "returned",
                  !.refined = refined,
                  !.highindels = Len(s3.aligned) - Len(refined),
                  !.outfile = refined]
    /\ UNCHANGED <<s5vars, sample, stlog, s7, dirvars>>

NextIndel == IndelFilterAndWrite

\* ------------------------------------------------------------------------
\* Sample state: the stage drivers that assign Sample.state
\* ------------------------------------------------------------------------
NSamples == 2        \* samples of the Assembly
MaxDepthClusters == 2    \* clusters counted by set_sample_stats

SampleNames == 1..NSamples

IdleSample == [n \in SampleNames |-> [state |-> 0, clusters_hidepth |-> 0]]
IdleLog == [op |-> "idle", force |-> FALSE, err |-> ""]

\* a Sample as step 1 creates it (demux_raw2.py line 371, assembly.py
\* line 208)
NewSample == [state |-> 1, clusters_hidepth |-> 0]

\* the samples a step takes up: those that completed the step before; a
\* sample that already completed this step is taken again only with force
StepSamples(step, force) ==
    {n \in SampleNames :
        sample[n].state >= step - 1 /\ (force \/ sample[n].state < step)}

\* steps 2, 5 and 6: on success the sample is at the step's state
StepAdvance(step) ==
    /\ step \in {2, 5, 6}
    /\ \E n \in SampleNames :
        /\ sample[n].state = step - 1
        /\ sample' = [sample EXCEPT ![n].state = step]
    /\ stlog' = [op |-> "step", force |-> FALSE, err |-> ""]
    /\ UNCHANGED <<s5vars, s7, s3, dirvars>>

\* set_sample_stats(data, sample), given the per-cluster depths counted in
\* the clusters file as: total clusters, those at or above mindepth_majrule
\* (nmaj) and those at or above mindepth_statistical (nstat)
set_sample_stats(smp, total, nmaj, nstat) ==
    IF total = 0
    THEN [sample |-> [smp EXCEPT !.clusters_hidepth = 0], err |-> ""]
    ELSE IF nstat = 0
    \* hilens.max() of an empty array, after sample.state = 3
    THEN [sample |-> [smp EXCEPT !.state = 3], err |-> "ValueError"]
    ELSE [sample |-> [smp EXCEPT !.state = 3, !.clusters_hidepth = nmaj], err |-> ""]

\* step 3 ends with set_sample_stats on a sample it took up
Step3Stats ==
    /\ \E force \in BOOLEAN :
       \E n \in StepSamples(3, force) :
       \E total \in 0..MaxDepthClusters :
       \E nmaj \in 0..total :
       \E nstat \in 0..nmaj :
         LET r == set_sample_stats(sample[n], total, nmaj, nstat)
         IN /\ sample' = [sample EXCEPT ![n] = r.sample]
            /\ stlog' = [op |-> "set_sample_stats", force |-> force, err |-> r.err]
    /\ UNCHANGED <<s5vars, s7, s3, dirvars>>

\* jointestimate.run without the tests of lines 388-402: every sample is
\* submitted
SubmittedAnyState(force) == DOMAIN sample

\* jointestimate.run: the samples submitted (lines 386-405).  This module
\* keeps the state of a sample in sample.stats.state, the step classes in
\* sample.state; both are the state field of the sample here
Submitted(force) ==
    {n \in SampleNames :
        IF ~force THEN sample[n].state = 3
        ELSE sample[n].state >= 3 /\ sample[n].clusters_hidepth >= 2}

\* submit: the jobs in the order of the sort of line 420 (clusters_hidepth,
\* largest first; stable, samples in the order given)
RECURSIVE JobOrder(_)
JobOrder(S) ==
    IF S = {} THEN <<>>
    ELSE LET first == CHOOSE n \in S : \A m \in S :
                 \/ sample[n].clusters_hidepth > sample[m].clusters_hidepth
                 \/ sample[n].clusters_hidepth = sample[m].clusters_hidepth /\ n <= m
         IN <<first>> \o JobOrder(S \ {first})

\* submit, lines 443-451: sample_cleanup on every job up to the first that
\* failed
RECURSIVE Cleanup(_, _, _)
Cleanup(order, ok, smps) ==
    IF order = <<>> THEN [samples |-> smps, err |-> ""]
    ELSE IF ok[Head(order)]
         \* sample_cleanup
         THEN Cleanup(Tail(order), ok, [smps EXCEPT ![Head(order)].state = 4])
         ELSE [samples |-> smps, err |-> "IPyradWarningExit"]

\* jointestimate.run(data, samples, subloci, force, ipyclient)
JointEstimateRun ==
    /\ \E force \in BOOLEAN :
       \E ok \in [SampleNames -> BOOLEAN] :
         LET todo == Submitted(force)
             r == Cleanup(JobOrder(todo), ok, sample)
         IN /\ (\A n \in SampleNames \ todo : ok[n])
            /\ sample' = r.samples
            /\ stlog' = [op |-> "jointestimate", force |-> force, err |-> r.err,
                         jobs |-> todo, ok |-> {n \in todo : ok[n]}]
    /\ UNCHANGED <<s5vars, s7, s3, dirvars>>

\* get_stackarray(data, sample), given the number of clusters at or above
\* min_depth_statistical: without one recal_hidepth_stat raises (lines
\* 225-231); with one the loop reaches line 300, where nclust is read
\* before any assignment
get_stackarray(nstat) == IF nstat = 0 THEN "IPyradError" ELSE "NameError"

\* ------------------------------------------------------------------------
\* Step 4: get_stackarray over the clusters of the sample.  A cluster is
\* its depth, the sum of the size= of its rows; a row of the stack is the
\* index of the cluster whose base counts it holds.
\* ------------------------------------------------------------------------
MaxStackClusters == 4   \* clusters of the clusters file
MaxStackDepth == 3      \* depth of a cluster
MaxStackSize == 2       \* size of get_stackarray (10_000), scaled

\* recal_hidepth_stat, lines 215-217: stat_mask
stat_mask(depths, mindepth) == [i \in 1..Len(depths) |-> depths[i] >= mindepth]

\* the loop of lines 263-304: masked clusters are skipped; at the first
\* unmasked cluster line 300 reads nclust, a local that no statement has
\* assigned, before any row of stacked is stored
stack_loop(mask, maxclusts) ==
    IF \E i \in 1..Len(mask) : mask[i]
    THEN [err |-> "UnboundLocalError", rows |-> <<>>]
    ELSE [err |-> "", rows |-> <<>>]

\* get_stackarray(data, sample, size) on the depths of the clusters
get_stackarray_rows(depths, mindepth, size) ==
    LET mask == stat_mask(depths, mindepth)
        nstat == Len(SelectIdx(mask, LAMBDA i : mask[i]))
    IN IF get_stackarray(nstat) = "IPyradError"
       THEN [err |-> "IPyradError", rows |-> <<>>]
       ELSE stack_loop(mask, Min(size, nstat))

StackInputs(maxclusters) ==
    UNION {[1..n -> 1..MaxStackDepth] : n \in 0..maxclusters}

\* optim2, line 70: stacked = get_stackarray(data, sample)
GetStackarray ==
    /\ stlog.op = "clusters"
    /\ \E r \in {get_stackarray_rows(stlog.depths, stlog.mindepth, stlog.size)} :
         stlog' = [stlog EXCEPT !.op = "get_stackarray", !.err = r.err,
                                !.rows = r.rows]
    /\ UNCHANGED <<s5vars, sample, s7, s3, dirvars>>

NextStack == GetStackarray

\* optim2(data, sample, haploid): line 70 raises, so line 112 is not
\* reached and no sample is returned
optim2(smp, nstat) ==
    IF get_stackarray(nstat) # ""
    THEN [sample |-> smp, err |-> get_stackarray(nstat)]
    ELSE [sample |-> [smp EXCEPT !.state = 4], err |-> ""]

\* Step4.run: one optim2 job per sample taken up; prog.check() raises the
\* error of a failed job, else the results replace the samples
Step4Run ==
    /\ \E force \in BOOLEAN :
       \E nstat \in [SampleNames -> 0..MaxDepthClusters] :
         LET todo == StepSamples(4, force)
             res == [n \in todo |-> optim2(sample[n], nstat[n])]
             bad == {n \in todo : res[n].err # ""}
         IN /\ todo # {}
            /\ \A n \in SampleNames : nstat[n] <= sample[n].clusters_hidepth
            /\ sample' = IF bad = {}
                         THEN [n \in SampleNames |->
                                 IF n \in todo THEN res[n].sample ELSE sample[n]]
                         ELSE sample
            /\ stlog' = [op |-> "Step4.run", force |-> force,
                         err |-> IF bad = {} THEN ""
                                 ELSE res[CHOOSE n \in bad : TRUE].err]
    /\ UNCHANGED <<s5vars, s7, s3, dirvars>>

\* Step7._collect_stats, lines 272-275: every sample of the Assembly that
\* step 7 runs on goes to state 7
Step7Stats ==
    /\ \E force \in BOOLEAN :
         /\ StepSamples(7, force) # {}
         /\ sample' = [n \in SampleNames |-> [sample[n] EXCEPT !.state = 7]]
         /\ stlog' = [op |-> "Step7", force |-> force, err |-> ""]
    /\ UNCHANGED <<s5vars, s7, s3, dirvars>>

NextState ==
    \/ \E step \in {2, 5, 6} : StepAdvance(step)
    \/ Step3Stats
    \/ JointEstimateRun
    \/ Step4Run
    \/ Step7Stats

\* ------------------------------------------------------------------------
\* Stage 7: Step7.run (s7_assemble.py)
\* ------------------------------------------------------------------------
MaxChunks == 2       \* chunk files written by _split_clusters
MaxKept == 2         \* loci of a chunk that pass the filters

Writers == {"loci", "seqs", "snps"}

IdleS7 == [pc |-> "idle"]

\* Step7.__init__: the samples are those step 6 completed; saved is the
\* state of every sample in the project JSON on disk
StartS7 ==
    [pc |-> "start",
     states |-> [n \in SampleNames |-> 6],
     saved |-> [n \in SampleNames |-> 6],
     nchunks |-> 0,
     results |-> <<>>,
     jobs |-> [w \in Writers |-> "unsubmitted"],
     tracked |-> {},
     checked |-> {},
     raised |-> ""]

\* _split_clusters
SplitClusters ==
    /\ s7.pc = "start"
    /\ \/ \E n \in 0..MaxChunks : s7' = [s7 EXCEPT !.pc = "split", !.nchunks = n]
       \/ s7' = [s7 EXCEPT !.pc = "failed", !.raised = "_split_clusters"]
    /\ UNCHANGED <<s5vars, sample, stlog, s3, dirvars>>

\* _apply_filters_and_trimming: one job per chunk, block, check
ApplyFilters ==
    /\ s7.pc = "split"
    /\ \/ \E kept \in [1..s7.nchunks -> 0..MaxKept] :
            s7' = [s7 EXCEPT !.pc = "filtered", !.results = kept]
       \/ /\ s7.nchunks > 0
          /\ s7' = [s7 EXCEPT !.pc = "failed", !.raised = "_apply_filters_and_trimming"]
    /\ UNCHANGED <<s5vars, sample, stlog, s3, dirvars>>

\* _collect_stats
CollectStats ==
    /\ s7.pc = "filtered"
    /\ IF s7.nchunks = 0 \/ SumSeq(s7.results) = 0
       \* pd.concat of no filter tables, or "no loci passed filtering"
       THEN s7' = [s7 EXCEPT !.pc = "failed", !.raised = "_collect_stats"]
       \* lines 273-278: every sample to state 7, then save_json
       ELSE s7' = [s7 EXCEPT !.pc = "collected",
                             !.states = [n \in SampleNames |-> 7],
                             !.saved = [n \in SampleNames |-> 7]]
    /\ UNCHANGED <<s5vars, sample, stlog, s3, dirvars>>

\* _write_stats_files: writes s7_assembly_stats.txt, or the write raises
WriteStatsFiles ==
    /\ s7.pc = "collected"
    /\ \/ s7' = [s7 EXCEPT !.pc = "stats_written"]
       \/ s7' = [s7 EXCEPT !.pc = "failed", !.raised = "_write_stats_files"]
    /\ UNCHANGED <<s5vars, sample, stlog, s3, dirvars>>

\* _write_databases, lines 413-416: the loci job is applied and bound to
\* jobs; the seqs job is applied and jobs is bound anew; the snps line is a
\* comment; the progress bar gets the jobs dict
WriteDatabasesSubmit ==
    /\ s7.pc = "stats_written"
    /\ s7' = [s7 EXCEPT !.pc = "submitted",
                        !.jobs = [w \in Writers |->
                                    IF w \in {"loci", "seqs"} THEN "running"
                                    ELSE "unsubmitted"],
                        !.tracked = {"seqs"}]
    /\ UNCHANGED <<s5vars, sample, stlog, s3, dirvars>>

\* a worker finishes remote_fill_loci / remote_fill_seqs
WriterFinish ==
    /\ \E w \in Writers : \E res \in {"ok", "error"} :
        /\ s7.pc \in {"submitted", "done", "failed"}
        /\ s7.jobs[w] = "running"
        /\ s7' = [s7 EXCEPT !.jobs[w] = res]
    /\ UNCHANGED <<s5vars, sample, stlog, s3, dirvars>>

\* _write_databases, lines 417-418: block until the jobs of the progress
\* bar are ready, then check them; run() returns
WriteDatabasesCheck ==
    /\ s7.pc = "submitted"
    /\ \A w \in s7.tracked : s7.jobs[w] # "running"
    /\ s7' = [s7 EXCEPT
                !.checked = s7.tracked,
                !.pc = IF \E w \in s7.tracked : s7.jobs[w] = "error"
                       THEN "failed" ELSE "done",
                !.raised = IF \E w \in s7.tracked : s7.jobs[w] = "error"
                           THEN "_write_databases" ELSE @]
    /\ UNCHANGED <<s5vars, sample, stlog, s3, dirvars>>

NextS7 ==
    \/ SplitClusters \/ ApplyFilters \/ CollectStats \/ WriteStatsFiles
    \/ WriteDatabasesSubmit \/ WriterFinish \/ WriteDatabasesCheck

\* ------------------------------------------------------------------------
\* Merging the chunk files of a sample: reconcat
\* (clustmap_within_denovo_utils.py), concat_catgs and concat_denovo_consens
\* (consens_utils.py).
\*
\* A file name is "<sample>_chunk_<idx><ext>".  Split at "_" it is a list
\* of tokens; a token is kept as whether it starts with the digits of a
\* number, that number, and how many characters follow.
\* ------------------------------------------------------------------------
MaxIdx == 3          \* largest chunk index of a sample

\* the length of a suffix: ".aligned", ".tmpcatgs.hdf5", ".tmpconsens"
ExtLen(ext) ==
    IF ext = ".aligned" THEN 8 ELSE IF ext = ".tmpcatgs.hdf5" THEN 14 ELSE 11

WordToken(len) == [digits |-> FALSE, num |-> 0, tail |-> len]

\* name.split("_") of the chunk file idx of a sample whose own name splits
\* into nparts words
NameTokens(nparts, idx, ext) ==
    [k \in 1..nparts |-> WordToken(1)]
        \o <<WordToken(5), [digits |-> TRUE, num |-> idx, tail |-> ExtLen(ext)]>>

\* token[:-n]
DropLast(tok, n) == [tok EXCEPT !.tail = IF @ >= n THEN @ - n ELSE 0]

\* int(token): the number, or -1 for the ValueError of a token that is not
\* all digits
IntOf(tok) == IF tok.digits /\ tok.tail = 0 THEN tok.num ELSE -1

\* reconcat line 922: int(x.rsplit("_", 1)[-1][:-8])
ReconcatKey(toks) == IntOf(DropLast(toks[Len(toks)], 8))

\* concat_catgs line 606, concat_denovo_consens line 669:
\* int(x.name.split("_")[-2])
ConcatKey(toks) == IntOf(toks[Len(toks) - 1])

\* list.sort(key=...): stable, ascending by key
RECURSIVE InsertByKey(_, _, _)
InsertByKey(sorted, f, key) ==
    IF sorted = <<>> THEN <<f>>
    ELSE IF key[f] < key[Head(sorted)] THEN <<f>> \o sorted
    ELSE <<Head(sorted)>> \o InsertByKey(Tail(sorted), f, key)

RECURSIVE SortByKey(_, _)
SortByKey(files, key) ==
    IF files = <<>> THEN <<>>
    ELSE InsertByKey(SortByKey(SubSeq(files, 1, Len(files) - 1), key),
                     files[Len(files)], key)

\* the files found by glob in the order the file system lists them, sorted
\* by key and concatenated: [out, err]
MergeBy(nparts, globbed, ext, Key(_)) ==
    LET key == [f \in {globbed[k] : k \in 1..Len(globbed)} |->
                   Key(NameTokens(nparts, f, ext))]
    IN IF \E f \in DOMAIN key : key[f] < 0
       THEN [out |-> <<>>, err |-> "ValueError"]
       ELSE [out |-> SortByKey(globbed, key), err |-> ""]

\* every order in which glob may list the chunk files idxs
GlobOrders(idxs) ==
    {g \in [1..Cardinality(idxs) -> idxs] :
        \A a \in 1..Cardinality(idxs) : \A b \in 1..Cardinality(idxs) :
            a # b => g[a] # g[b]}

StartMerge(nparts, idxs, globbed) ==
    [pc |-> "start", nparts |-> nparts, idxs |-> idxs, globbed |-> globbed,
     out |-> <<>>, err |-> ""]

\* reconcat(data, sample): the chunks in the order written to clusters.gz
Reconcat ==
    /\ merge.pc = "start"
    /\ \E r \in {MergeBy(merge.nparts, merge.globbed, ".aligned", ReconcatKey)} :
          merge' = [merge EXCEPT !.pc = "reconcat", !.out = r.out, !.err = r.err]
    /\ UNCHANGED <<s5vars, sample, stlog, s7, s3, workers, asm>>

\* concat_catgs(data, sample): the chunks in the order stored in the h5
ConcatCatgs ==
    /\ merge.pc = "start"
    /\ \E r \in {MergeBy(merge.nparts, merge.globbed, ".tmpcatgs.hdf5", ConcatKey)} :
          merge' = [merge EXCEPT !.pc = "concat_catgs", !.out = r.out, !.err = r.err]
    /\ UNCHANGED <<s5vars, sample, stlog, s7, s3, workers, asm>>

\* concat_denovo_consens(data, sample): the chunks in the order written
ConcatDenovoConsens ==
    /\ merge.pc = "start"
    /\ \E r \in {MergeBy(merge.nparts, merge.globbed, ".tmpconsens", ConcatKey)} :
          merge' = [merge EXCEPT !.pc = "concat_denovo_consens",
                                 !.out = r.out, !.err = r.err]
    /\ UNCHANGED <<s5vars, sample, stlog, s7, s3, workers, asm>>

NextMerge == Reconcat \/ ConcatCatgs \/ ConcatDenovoConsens

\* ------------------------------------------------------------------------
\* Step 5: the records merged by concat_catgs and concat_denovo_consens.
\* A line of a .tmpconsens chunk file is the cluster it was called from and
\* the number of "nnnn" runs in its text; the .tmpcatgs.hdf5 file of the
\* chunk holds one row per line (write_chunk, lines 394-411), named here by
\* the cluster.
\* ------------------------------------------------------------------------
MaxChunkFiles == 2     \* chunk files of a sample
MaxLines == 2          \* consensus lines of a chunk file
MaxInserts == 2        \* "nnnn" runs of a consensus line

ChunkLines(idx) ==
    UNION {{[k \in 1..n |-> [cluster |-> <<idx, k>>, inserts |-> ins[k]]] :
               ins \in [1..n -> 0..MaxInserts]} : n \in 0..MaxLines}

\* concat_denovo_consens, lines 677-694, on one line: with "nnnn" in the
\* line, `before, after = line.split("nnnn")` unpacks two parts; any other
\* number is a ValueError and the line is passed over
LineWritten(line) == line.inserts = 0 \/ line.inserts + 1 = 2

\* the records written for the files in turn, idx the next name
RECURSIVE DenovoRecords(_, _, _)
DenovoRecords(files, lines, idx) ==
    IF files = <<>> THEN <<>>
    ELSE LET kept == SelectSeq(lines[Head(files)], LineWritten)
         IN [k \in 1..Len(kept) |-> [name |-> idx + k - 1, cluster |-> kept[k].cluster]]
               \o DenovoRecords(Tail(files), lines, idx + Len(kept))

\* concat_catgs, lines 639-648: the rows of the files in turn
RECURSIVE CatgsRows(_, _)
CatgsRows(files, lines) ==
    IF files = <<>> THEN <<>>
    ELSE [k \in 1..Len(lines[Head(files)]) |-> lines[Head(files)][k].cluster]
            \o CatgsRows(Tail(files), lines)

StartConcat(nparts, idxs, globbed, lines) ==
    [pc |-> "chunks", nparts |-> nparts, idxs |-> idxs, globbed |-> globbed,
     lines |-> lines, ran |-> {}, rows |-> <<>>, records |-> <<>>, errs |-> {}]

\* concat_catgs(data, sample)
ConcatCatgsRows ==
    /\ merge.pc = "chunks"
    /\ "concat_catgs" \notin merge.ran
    /\ \E r \in {MergeBy(merge.nparts, merge.globbed, ".tmpcatgs.hdf5", ConcatKey)} :
          merge' = [merge EXCEPT
                      !.ran = @ \cup {"concat_catgs"},
                      !.errs = IF r.err # "" THEN @ \cup {"concat_catgs"} ELSE @,
                      !.rows = IF r.err # "" THEN <<>>
                               ELSE CatgsRows(r.out, merge.lines)]
    /\ UNCHANGED <<s5vars, sample, stlog, s7, s3, workers, asm>>

\* concat_denovo_consens(data, sample)
ConcatDenovoRecords ==
    /\ merge.pc = "chunks"
    /\ "concat_denovo_consens" \notin merge.ran
    /\ \E r \in {MergeBy(merge.nparts, merge.globbed, ".tmpconsens", ConcatKey)} :
          merge' = [merge EXCEPT
                      !.ran = @ \cup {"concat_denovo_consens"},
                      !.errs = IF r.err # "" THEN @ \cup {"concat_denovo_consens"} ELSE @,
                      !.records = IF r.err # "" THEN <<>>
                                  ELSE DenovoRecords(r.out, merge.lines, 0)]
    /\ UNCHANGED <<s5vars, sample, stlog, s7, s3, workers, asm>>

NextConcat == ConcatCatgsRows \/ ConcatDenovoRecords

\* ------------------------------------------------------------------------
\* The workers of a stage and the files they write in the shared tmp
\* directory: BarMatching.run (demux_raw2.py), align_and_parse
\* (clustmap_within_denovo_utils.py), Processor.write_chunk
\* (consens_utils.py).
\*
\* A file name is the list of its parts between the "."s; a part is a list
\* of atoms, a word or a number.  A sample name may hold "."s of its own.
\* ------------------------------------------------------------------------
MaxWorkers == 2      \* jobs of a stage running at the same time
MaxChunkIdx == 1     \* largest chunk index or input-file index of a job

Word(w) == [w |-> w, n |-> 0]
Num(k) == [w |-> "#", n |-> k]

\* sample names, as their parts between the "."s
WorkerSamples == {<<<<Word("a")>>>>, <<<<Word("b")>>>>,
                  <<<<Word("p")>>, <<Num(1)>>>>, <<<<Word("p")>>, <<Num(2)>>>>}

\* name + text: the text goes on the last part of the name
Glue(name, atoms) ==
    [name EXCEPT ![Len(name)] = @ \o atoms]

\* Path(name).with_suffix(suffix): the part after the last "." of the name,
\* if there is one, is replaced by the suffix
WithSuffix(name, suffix) ==
    IF Len(name) > 1 THEN SubSeq(name, 1, Len(name) - 1) \o suffix
    ELSE name \o suffix

\* handle.rsplit(".", 1)[0] + suffix
RsplitDot(name, suffix) == SubSeq(name, 1, Len(name) - 1) \o suffix

\* BarMatching.run, lines 568 and 576: the R1 and R2 chunk files of the
\* samples matched in input file fidx
DemuxFiles(snames, fidx) ==
    UNION {{Glue(sn, <<Word("_R1")>>) \o <<<<Word("tmp"), Num(fidx)>>, <<Word("fastq")>>, <<Word("gz")>>>>,
            Glue(sn, <<Word("_R2")>>) \o <<<<Word("tmp"), Num(fidx)>>, <<Word("fastq")>>, <<Word("gz")>>>>}
           : sn \in snames}

\* muscle_chunker line 527: <sample>_chunk_<idx>.ali
ChunkAli(sn, idx) == Glue(sn, <<Word("_chunk_"), Num(idx)>>) \o <<<<Word("ali")>>>>

\* align_and_parse, line 581: the .aligned file of a chunk
AlignedFiles(sn, idx) == {RsplitDot(ChunkAli(sn, idx), <<<<Word("aligned")>>>>)}

\* the chunk file a Processor is given: <sample>_chunk_<idx>
ChunkFile(sn, idx) == Glue(sn, <<Word("_chunk_"), Num(idx)>>)

\* Processor.write_chunk, lines 399 and 408
ConsensFiles(sn, idx) ==
    {WithSuffix(ChunkFile(sn, idx), <<<<Word("tmpcatgs")>>, <<Word("hdf5")>>>>),
     WithSuffix(ChunkFile(sn, idx), <<<<Word("tmpconsens")>>>>)}

\* the jobs of a stage: one per input file in stage 1, one per chunk of a
\* sample in stages 3 and 5
StageJobs(stage) ==
    IF stage = 1
    THEN {[snames |-> ss, idx |-> k] :
             ss \in (SUBSET WorkerSamples) \ {{}}, k \in 0..MaxChunkIdx}
    ELSE {[snames |-> {sn}, idx |-> k] : sn \in WorkerSamples, k \in 0..MaxChunkIdx}

\* two jobs of a stage are the same job
SameJob(stage, j1, j2) ==
    IF stage = 1 THEN j1.idx = j2.idx ELSE j1 = j2

\* the tmp files job j of the stage writes
JobFiles(stage, j) ==
    IF stage = 1 THEN DemuxFiles(j.snames, j.idx)
    ELSE LET sn == CHOOSE x \in j.snames : TRUE
         IN IF stage = 3 THEN AlignedFiles(sn, j.idx) ELSE ConsensFiles(sn, j.idx)

StartWorkers(stage) ==
    [pc |-> "run", stage |-> stage, running |-> {}, wrote |-> {}, done |-> {}]

\* lbview.apply: a job of the stage that has not run yet starts on a free
\* engine
WorkerStart ==
    /\ workers.pc = "run"
    /\ Cardinality(workers.running) < MaxWorkers
    /\ \E j \in StageJobs(workers.stage) :
         /\ \A r \in workers.running \cup workers.done :
               ~SameJob(workers.stage, r, j)
         /\ workers' = [workers EXCEPT !.running = @ \cup {j}]
    /\ UNCHANGED <<s5vars, sample, stlog, s7, s3, merge, asm>>

\* a running job writes one of its tmp files
WorkerWrite ==
    /\ workers.pc = "run"
    /\ \E j \in workers.running : \E f \in JobFiles(workers.stage, j) :
         /\ [job |-> j, file |-> f] \notin workers.wrote
         /\ workers' = [workers EXCEPT !.wrote = @ \cup {[job |-> j, file |-> f]}]
    /\ UNCHANGED <<s5vars, sample, stlog, s7, s3, merge, asm>>

\* a job that wrote all its files returns
WorkerReturn ==
    /\ workers.pc = "run"
    /\ \E j \in workers.running :
         /\ \A f \in JobFiles(workers.stage, j) :
               [job |-> j, file |-> f] \in workers.wrote
         /\ workers' = [workers EXCEPT
                          !.running = @ \ {j},
                          !.wrote = {x \in @ : x.job # j},
                          !.done = @ \cup {j}]
    /\ UNCHANGED <<s5vars, sample, stlog, s7, s3, merge, asm>>

NextWorkers == WorkerStart \/ WorkerWrite \/ WorkerReturn

\* ------------------------------------------------------------------------
\* Stage 5: iter_filter_heteros on its own, applied to a Locus as
\* iter_build_consens yields it: a trimmed consensus, its first and last
\* column called.  The thresholds are fractions of a power of two, for which
\* the float products of lines 269 and 273 are exact.
\* ------------------------------------------------------------------------
MaxConsLen == 4      \* columns of a trimmed consensus

\* a base, N and a heterozygote code
ConsCodes == {65, 78, 82}

TrimmedConsens ==
    UNION {{cons \in [1..n -> ConsCodes] : cons[1] # 78 /\ cons[n] # 78}
           : n \in 1..MaxConsLen}

HetParamSpace ==
    [max_h_consens : {[num |-> 1, den |-> 2], [num |-> 1, den |-> 1]},
     max_n_consens : {[num |-> 1, den |-> 4]},
     filter_min_trim_len : {1, 3},
     is_ref : BOOLEAN]

\* one pass of the loop of iter_filter_heteros (lines 255-276)
FilterHeteros ==
    /\ s5pc = "heteros"
    /\ \E r \in {iter_filter_heteros(params, loc)} :
         /\ loc' = r.loc
         /\ s5pc' = IF r.yield THEN "yielded" ELSE "filtered"
         /\ filters' = IF r.yield THEN filters
                       ELSE [filters EXCEPT ![r.loc.outcome] = @ + 1]
    /\ UNCHANGED <<params, nread, counters, consens_seqs, nalleles, refpos, catgs,
                   sample, stlog, s7, s3, dirvars>>

NextHet == FilterHeteros

\* ------------------------------------------------------------------------
\* Assembly.paramsdict and Assembly.set_params (assembly.py): the two
\* minimum depths.  A new value is a number, given in halves (v2 = 2 *
\* value), or a text that int() does not take (num = FALSE).
\* ------------------------------------------------------------------------
MaxNewValue == 8     \* largest value passed to set_params

NewValues ==
    {[num |-> TRUE, v2 |-> k] : k \in -2..(2 * MaxNewValue)}
        \cup {[num |-> FALSE, v2 |-> 0]}

\* Assembly.__init__, lines 113-114
DefaultParams == [mindepth_statistical |-> 6, mindepth_majrule |-> 6]

\* int(newvalue) of a number: the fraction is cut, toward zero
PyInt(nv) == IF nv.v2 >= 0 THEN nv.v2 \div 2 ELSE -((-nv.v2) \div 2)

\* set_params with the tests of lines 459-464 and 471-473 left out
set_params_unchecked(pd, param, newvalue) ==
    IF ~newvalue.num THEN [pd |-> pd, msg |-> "ValueError"]
    ELSE LET v == IF newvalue.v2 >= 0 THEN newvalue.v2 \div 2
                  ELSE -((-newvalue.v2) \div 2)
         IN IF param = "8"
            THEN [pd |-> [pd EXCEPT !.mindepth_statistical = v], msg |-> "set"]
            ELSE IF param = "9"
            THEN [pd |-> [pd EXCEPT !.mindepth_majrule = v], msg |-> "set"]
            ELSE [pd |-> pd, msg |-> "set"]

\* set_params(param, newvalue), branches '8' and '9' (lines 457-476); a
\* branch of another parameter leaves the two depths alone
set_params(pd, param, newvalue) ==
    IF param \notin {"8", "9"} THEN [pd |-> pd, msg |-> "set"]
    ELSE IF ~newvalue.num THEN [pd |-> pd, msg |-> "ValueError"]
    ELSE IF param = "8"
    THEN IF PyInt(newvalue) < 5
         THEN [pd |-> pd, msg |-> "error"]
         ELSE IF PyInt(newvalue) < pd.mindepth_majrule
         THEN [pd |-> pd, msg |-> "error"]
         ELSE [pd |-> [pd EXCEPT !.mindepth_statistical = PyInt(newvalue)],
               msg |-> "set"]
    ELSE IF PyInt(newvalue) > pd.mindepth_statistical
         THEN [pd |-> pd, msg |-> "error"]
         ELSE [pd |-> [pd EXCEPT !.mindepth_majrule = PyInt(newvalue)],
               msg |-> "set"]

StartAsm == [pc |-> "params", paramsdict |-> DefaultParams,
             param |-> "", newvalue |-> [num |-> TRUE, v2 |-> 0], msg |-> ""]

\* a call of set_params on mindepth_statistical
SetMindepthStatistical ==
    /\ asm.pc = "params"
    /\ \E v \in NewValues :
         LET r == set_params(asm.paramsdict, "8", v)
         IN asm' = [asm EXCEPT !.paramsdict = r.pd, !.param = "8",
                               !.newvalue = v, !.msg = r.msg]
    /\ UNCHANGED <<s5vars, sample, stlog, s7, s3, merge, workers>>

\* a call of set_params on mindepth_majrule
SetMindepthMajrule ==
    /\ asm.pc = "params"
    /\ \E v \in NewValues :
         LET r == set_params(asm.paramsdict, "9", v)
         IN asm' = [asm EXCEPT !.paramsdict = r.pd, !.param = "9",
                               !.newvalue = v, !.msg = r.msg]
    /\ UNCHANGED <<s5vars, sample, stlog, s7, s3, merge, workers>>

\* a call of set_params on another integer parameter (max_low_qual_bases)
SetOtherParam ==
    /\ asm.pc = "params"
    /\ \E v \in {nv \in NewValues : nv.num} :
         LET r == set_params(asm.paramsdict, "6", v)
         IN asm' = [asm EXCEPT !.paramsdict = r.pd, !.param = "6",
                               !.newvalue = v, !.msg = r.msg]
    /\ UNCHANGED <<s5vars, sample, stlog, s7, s3, merge, workers>>

NextParams == SetMindepthStatistical \/ SetMindepthMajrule \/ SetOtherParam

\* ------------------------------------------------------------------------
\* Specifications, one per subsystem
\* ------------------------------------------------------------------------
\* nothing merged, no worker running, no Assembly parameters set
IdleDir ==
    /\ merge = [pc |-> "idle"]
    /\ workers = [pc |-> "idle"]
    /\ asm = [pc |-> "idle"]

IdleS5 ==
    /\ params = [is_ref |-> FALSE]
    /\ s5pc = "idle"
    /\ nread = 0
    /\ loc = NoLoc
    /\ counters = InitCounters
    /\ filters = InitFilters
    /\ consens_seqs = <<>>
    /\ nalleles = <<>>
    /\ refpos = <<>>
    /\ catgs = <<>>

\* the Processor after __init__
InitS5 ==
    /\ params \in ParamSpace
    /\ s5pc = "iter"
    /\ nread = 0
    /\ loc = NoLoc
    /\ counters = InitCounters
    /\ filters = InitFilters
    /\ consens_seqs = <<>>
    /\ nalleles = <<>>
    /\ refpos = <<>>
    /\ catgs = <<>>
    /\ sample = IdleSample /\ stlog = IdleLog /\ s7 = IdleS7 /\ s3 = IdleS3
    /\ IdleDir

NextS5 == ProcessCluster \/ write_chunk

SpecS5 == InitS5 /\ [][NextS5]_vars

NextAlleles == ProcessAlleleCluster \/ write_chunk

SpecAlleles == InitS5 /\ [][NextAlleles]_vars

InitState ==
    /\ IdleS5
    /\ sample = [n \in SampleNames |-> NewSample]
    /\ stlog = [op |-> "step1", force |-> FALSE, err |-> ""]
    /\ s7 = IdleS7 /\ s3 = IdleS3
    /\ IdleDir

SpecState == InitState /\ [][NextState]_vars

InitS7 ==
    /\ IdleS5
    /\ sample = IdleSample /\ stlog = IdleLog
    /\ s7 = StartS7
    /\ s3 = IdleS3
    /\ IdleDir

SpecS7 == InitS7 /\ [][NextS7]_vars

InitS3 ==
    /\ IdleS5
    /\ sample = IdleSample /\ stlog = IdleLog /\ s7 = IdleS7
    /\ IdleDir
    /\ \E nseeds \in 1..MaxSeeds : \E usort \in UsortFiles(nseeds) :
       \E is_gbs \in BOOLEAN :
          s3 = StartS3(nseeds, usort, is_gbs)

SpecS3 == InitS3 /\ [][NextS3]_vars

InitMerge ==
    /\ IdleS5
    /\ sample = IdleSample /\ stlog = IdleLog /\ s7 = IdleS7 /\ s3 = IdleS3
    /\ workers = [pc |-> "idle"] /\ asm = [pc |-> "idle"]
    /\ \E nparts \in 1..2 : \E idxs \in SUBSET (0..MaxIdx) :
       \E globbed \in GlobOrders(idxs) :
          merge = StartMerge(nparts, idxs, globbed)

SpecMerge == InitMerge /\ [][NextMerge]_vars

InitWorkers ==
    /\ IdleS5
    /\ sample = IdleSample /\ stlog = IdleLog /\ s7 = IdleS7 /\ s3 = IdleS3
    /\ merge = [pc |-> "idle"] /\ asm = [pc |-> "idle"]
    /\ \E stage \in {1, 3, 5} : workers = StartWorkers(stage)

SpecWorkers == InitWorkers /\ [][NextWorkers]_vars

InitParse ==
    /\ IdleS5
    /\ sample = IdleSample /\ stlog = IdleLog /\ s7 = IdleS7
    /\ IdleDir
    /\ \E aligned \in AlignedChunks : \E declone \in BOOLEAN :
         s3 = StartParse(aligned, declone)

SpecParse == InitParse /\ [][NextParse]_vars

InitGbs ==
    /\ IdleS5
    /\ sample = IdleSample /\ stlog = IdleLog /\ s7 = IdleS7
    /\ IdleDir
    /\ \E align1 \in Alignments(MaxAlnRows, MaxAlnWidth) : s3 = StartGbs(align1)

SpecGbs == InitGbs /\ [][NextGbs]_vars

InitProc ==
    /\ IdleS5
    /\ sample = IdleSample /\ stlog = IdleLog /\ s7 = IdleS7
    /\ IdleDir
    /\ \E clusts \in ProcChunks(MaxProcClusters, MaxProcRows) : s3 = StartProc(clusts)

SpecProc == InitProc /\ [][NextProc]_vars

InitIndel ==
    /\ IdleS5
    /\ sample = IdleSample /\ stlog = IdleLog /\ s7 = IdleS7
    /\ IdleDir
    /\ \E aligned \in GapChunks(MaxGapClusters, MaxGapRows) : s3 = StartIndel(aligned)

SpecIndel == InitIndel /\ [][NextIndel]_vars

InitStack ==
    /\ IdleS5
    /\ sample = IdleSample /\ s7 = IdleS7 /\ s3 = IdleS3
    /\ IdleDir
    /\ \E depths \in StackInputs(MaxStackClusters) :
       \E mindepth \in 1..MaxStackDepth :
       \E size \in 1..MaxStackSize :
         stlog = [op |-> "clusters", force |-> FALSE, err |-> "",
                  depths |-> depths, mindepth |-> mindepth, size |-> size,
                  rows |-> <<>>]

SpecStack == InitStack /\ [][NextStack]_vars

InitConcat ==
    /\ IdleS5
    /\ sample = IdleSample /\ stlog = IdleLog /\ s7 = IdleS7 /\ s3 = IdleS3
    /\ workers = [pc |-> "idle"] /\ asm = [pc |-> "idle"]
    /\ \E nparts \in 1..2 : \E idxs \in SUBSET (0..(MaxChunkFiles - 1)) :
       \E globbed \in GlobOrders(idxs) :
       \E lines \in [idxs -> UNION {ChunkLines(i) : i \in idxs}] :
          /\ \A i \in idxs : lines[i] \in ChunkLines(i)
          /\ merge = StartConcat(nparts, idxs, globbed, lines)

SpecConcat == InitConcat /\ [][NextConcat]_vars

InitParams ==
    /\ IdleS5
    /\ sample = IdleSample /\ stlog = IdleLog /\ s7 = IdleS7 /\ s3 = IdleS3
    /\ merge = [pc |-> "idle"] /\ workers = [pc |-> "idle"]
    /\ asm = StartAsm

SpecParams == InitParams /\ [][NextParams]_vars

InitHet ==
    /\ params \in HetParamSpace
    /\ s5pc = "heteros"
    /\ nread = 0
    /\ \E cons \in TrimmedConsens : loc = [NoLoc EXCEPT !.consens = cons, !.outcome = "yield"]
    /\ counters = InitCounters
    /\ filters = InitFilters
    /\ consens_seqs = <<>>
    /\ nalleles = <<>>
    /\ refpos = <<>>
    /\ catgs = <<>>
    /\ sample = IdleSample /\ stlog = IdleLog /\ s7 = IdleS7 /\ s3 = IdleS3
    /\ IdleDir

SpecHet == InitHet /\ [][NextHet]_vars

\* ------------------------------------------------------------------------
\* Properties of the stage-5 Processor (SpecS5)
\* ------------------------------------------------------------------------

\* the base caller ran on the Locus of the last cluster
Called == Entered /\ loc.rawcons # <<>>

\* column c of the called array is variable, deep enough for a call, and
\* its biallelic depth is below the statistical threshold
MajRuleColumn(c) ==
    /\ NonMasked(loc.sarr, c) >= params.min_depth_majrule
    /\ Cardinality(Present(loc.sarr, c)) > 1
    /\ Alleles(loc.sarr, c).nump + Alleles(loc.sarr, c).numq >= params.min_depth_majrule
    /\ Alleles(loc.sarr, c).nump + Alleles(loc.sarr, c).numq < params.min_depth_statistical

\* C1: a variable column with min_depth_majrule <= n_p + n_q <
\* min_depth_statistical is called by majority rule alone: p when n_p > n_q,
\* else the IUPAC code of {p, q}; the binomial test does not replace it.
C1_MajorityRuleAlone ==
    Called =>
        \A c \in 1..Len(loc.rawcons) :
            MajRuleColumn(c) =>
                loc.rawcons[c] =
                    MajRuleCall(Alleles(loc.sarr, c).pbase, Alleles(loc.sarr, c).qbase,
                                Alleles(loc.sarr, c).nump, Alleles(loc.sarr, c).numq)

\* C15: a column whose count of bases other than N and "-" is exactly
\* min_depth_majrule is called, a base or a heterozygote code, never N.
C15_CalledAtMinDepth ==
    Called =>
        \A c \in 1..Len(loc.rawcons) :
            NonMasked(loc.sarr, c) = params.min_depth_majrule =>
                loc.rawcons[c] # 78

\* column c of the array the base caller was given is variable and its
\* third most frequent base makes up at least 15% of the three most frequent
TrialleleColumn(c) ==
    /\ NonMasked(loc.sarr, c) >= params.min_depth_majrule
    /\ Cardinality(Present(loc.sarr, c)) > 1
    /\ 100 * Alleles(loc.sarr, c).numr >=
           15 * (Alleles(loc.sarr, c).nump + Alleles(loc.sarr, c).numq
                    + Alleles(loc.sarr, c).numr)

\* C16: a cluster that passed the depth filters, has a called base, and
\* has a variable column with n_r / (n_p + n_q + n_r) >= 0.15 is flagged
\* triallelic whatever its other columns hold, and with max_alleles_consens
\* < 3 it is filtered: maxalleles advances by one, no other filter counter
\* changes, and no consensus is stored for it.
C16_TrialleleFiltered ==
    (/\ Called
     /\ \E c \in 1..Len(loc.rawcons) : loc.rawcons[c] # 78
     /\ \E c \in 1..Len(loc.rawcons) : TrialleleColumn(c)
     /\ params.max_alleles_consens < 3) =>
        /\ loc.triallele
        /\ s5pc = "iter" => /\ filters = [InitFilters EXCEPT !["maxalleles"] = 1]
                            /\ consens_seqs = <<>>
        /\ s5pc # "KeyError"

\* C20: iter_build_consens filters a cluster at the trim exactly when its
\* consensus has no called column: then the depth counter advances by one,
\* nothing is stored and the chunk goes on with the next cluster; a
\* consensus with a called column, column 0 alone included, is not filtered
\* at the trim.
C20_TrimFilterIffAllN ==
    Called =>
        /\ (\A c \in 1..Len(loc.rawcons) : loc.rawcons[c] = 78) =>
               /\ s5pc = "iter"
               /\ filters = [InitFilters EXCEPT !["depth"] = 1]
               /\ consens_seqs = <<>>
        /\ (\E c \in 1..Len(loc.rawcons) : loc.rawcons[c] # 78) =>
               /\ loc.outcome \notin {"depth", "mindepth"}
               /\ s5pc # "KeyError"

\* C2: every stored locus has 1 <= nalleles <= max_alleles_consens.
C2_NallelesInRange ==
    s5pc # "idle" =>
        \A i \in 1..Len(nalleles) :
            nalleles[i] >= 1 /\ nalleles[i] <= params.max_alleles_consens

\* C3: with max_alleles_consens = 1 no stored consensus holds one of the
\* heterozygote codes R, K, S, Y, W, M.
C3_HaploidNoHetCodes ==
    (s5pc # "idle" /\ params.max_alleles_consens = 1) =>
        \A i \in 1..Len(consens_seqs) :
            \A c \in 1..Len(consens_seqs[i]) : consens_seqs[i][c] \notin HetCodes

\* C7: at every site of every stored locus the four stored base counts sum
\* to at most 65,500, also for a cluster of more than 65,500 reads, and no
\* stored count has wrapped modulo 65,536.
C7_DepthCapped ==
    /\ \A i \in 1..Len(catgs) : \A c \in 1..Len(catgs[i]) :
           catgs[i][c][1] + catgs[i][c][2] + catgs[i][c][3] + catgs[i][c][4] <= DepthCap
    /\ (Stored /\ s5pc = "iter") =>
           \A c \in 1..NCols(loc.seqs) :
               /\ catgs[Len(catgs)][c][1] = ColCount(loc.seqs, c, 67)
               /\ catgs[Len(catgs)][c][2] = ColCount(loc.seqs, c, 65)
               /\ catgs[Len(catgs)][c][3] = ColCount(loc.seqs, c, 84)
               /\ catgs[Len(catgs)][c][4] = ColCount(loc.seqs, c, 71)

\* ------------------------------------------------------------------------
\* Properties of the sample state (SpecState)
\* ------------------------------------------------------------------------

\* C4: over any sequence of stage runs, re-runs with force and runs of
\* stage 3 or 4 on a sample at a later state included, the state of a
\* sample never decreases.
C4_StateNeverDecreases ==
    [][\A n \in SampleNames : sample'[n].state >= sample[n].state]_vars

\* C14: jointestimate.run submits a job only for a sample at state 3 or
\* later, and without force only for a sample at state 3 exactly; the run
\* changes a sample only by setting its state to 4, and only when the job
\* of that very sample succeeded; a sample whose job failed keeps its state.
C14_StateFourOnlyOnOwnSuccess ==
    [][stlog'.op = "jointestimate" =>
         /\ \A n \in stlog'.jobs :
               /\ sample[n].state >= 3
               /\ ~stlog'.force => sample[n].state = 3
         /\ \A n \in SampleNames :
               sample'[n] # sample[n] =>
                   n \in stlog'.ok /\ sample'[n].state = 4
         /\ \A n \in stlog'.jobs \ stlog'.ok :
               sample'[n].state = sample[n].state]_vars

\* one job succeeded and its sample is at state 4, another failed and its
\* sample is still at state 3
C14_Witness ==
    /\ stlog.op = "jointestimate"
    /\ stlog.err = "IPyradWarningExit"
    /\ \E n \in stlog.ok : sample[n].state = 4
    /\ \E n \in stlog.jobs \ stlog.ok : sample[n].state = 3

\* ------------------------------------------------------------------------
\* Properties of Step7.run (SpecS7)
\* ------------------------------------------------------------------------

\* C5: the saved project holds a sample at state 7 only once stage 7 has
\* fully succeeded; when stage 7 has failed at any step the saved project
\* is the one from before the stage.
C5_SavedOnlyAfterSuccess ==
    s7.pc # "idle" =>
        /\ (\E n \in SampleNames : s7.saved[n] = 7) => s7.pc = "done"
        /\ s7.pc = "failed" => s7.saved = StartS7.saved

\* C6: when Step7.run has returned without error the loci, seqs and snps
\* writers have each been submitted, have completed, and have been checked
\* by the driver.
C6_ThreeWritersChecked ==
    s7.pc = "done" =>
        \A w \in Writers : s7.jobs[w] = "ok" /\ w \in s7.checked

\* ------------------------------------------------------------------------
\* Properties of stage 3 (SpecS3)
\* ------------------------------------------------------------------------

\* build_clusters has written the clusters file
Built == s3.pc \notin {"idle", "start"}

\* the clusters of the written file: the rows between the separators
ClustersWritten ==
    LET pieces == SelectSeq(Split(s3.clustfile), LAMBDA piece : RowsOf(piece) # <<>>)
    IN [k \in 1..Len(pieces) |-> RowsOf(pieces[k])]

\* the reads the clusterer named: queries and targets of the userout file
\* and the entries of the htemp file
NamedReads ==
    {s3.usort[i].hit : i \in 1..Len(s3.usort)}
        \cup {s3.usort[i].seed : i \in 1..Len(s3.usort)}
        \cup 1..s3.nseeds

\* the queries of the userout file with more internal indels than allowed
HighIndelHits ==
    {s3.usort[i].hit : i \in {j \in 1..Len(s3.usort) : s3.usort[j].ind > max_indels}}

\* the number of rows of the clusters cw that hold read n
Occurrences(cw, n) ==
    SumSeq([k \in 1..Len(cw) |->
              Len(SelectSeq(cw[k], LAMBDA row : row.name = n))])

\* C8 as stated: every named read appears in exactly one cluster, no read
\* is missing and none appears twice.
C8_EveryReadExactlyOnce ==
    Built =>
        \A cw \in {ClustersWritten} :
            \A n \in NamedReads : Occurrences(cw, n) = 1

\* C8, amended: no named read appears twice, and the reads that are missing
\* are exactly the hits with more than max_indels internal indels.
C8_EveryReadOnceUnlessHighIndel ==
    Built =>
        \A cw \in {ClustersWritten} :
            \A n \in NamedReads :
                /\ Occurrences(cw, n) <= 1
                /\ Occurrences(cw, n) = 0 <=> n \in HighIndelHits

\* a file written with a flush on the way, holding a kept hit and a
\* singleton cluster and lacking a dropped hit
C8_Witness ==
    /\ s3.pc = "built"
    /\ s3.flushed
    /\ HighIndelHits # {}
    /\ \E i \in 1..Len(s3.usort) :
          s3.usort[i].ind <= max_indels
              /\ Occurrences(ClustersWritten, s3.usort[i].hit) = 1
    /\ \E k \in 1..Len(ClustersWritten) : Len(ClustersWritten[k]) = 1

\* C9: in every written cluster the seed is the first row and the hits
\* follow in non-increasing order of size.
C9_SeedFirstHitsBySize ==
    Built =>
        \A cw \in {ClustersWritten} :
            \A k \in 1..Len(cw) :
                /\ cw[k][1].mark = "*"
                /\ \A i \in 2..Len(cw[k]) : \A j \in 2..Len(cw[k]) :
                       i < j => cw[k][i].size >= cw[k][j].size

\* exactly one row of the cluster is marked "*", and it is the first
StarFirst(rows) ==
    /\ rows # <<>>
    /\ rows[1].mark = "*"
    /\ \A i \in 2..Len(rows) : rows[i].mark # "*"

\* the clusters persistent_popen_align3 has returned or is about to
AlignedClusters ==
    IF s3.pc \in {"idle", "start"} THEN {}
    ELSE {RowsOf([lines |-> s3.aligned[i], nl |-> FALSE]) : i \in 1..Len(s3.aligned)}
         \cup UNION {{RowsOf([lines |-> s3.results[k][i], nl |-> FALSE]) :
                         i \in 1..Len(s3.results[k])} : k \in 1..Len(s3.results)}

\* C10: every cluster written by build_clusters and every multi-row cluster
\* returned by persistent_popen_align3 has exactly one row marked "*", and
\* that row is its first.
C10_OneSeedRowFirst ==
    /\ Built => \A cw \in {ClustersWritten} :
                    \A k \in 1..Len(cw) : StarFirst(cw[k])
    /\ \A rows \in AlignedClusters : Len(rows) > 1 => StarFirst(rows)

\* every chunk is aligned, the paired and the single-end branch were both
\* taken, and two multi-row clusters were returned
C10_Witness ==
    /\ s3.pc = "chunked"
    /\ s3.cidx > NChunks
    /\ {"pe", "se"} \subseteq s3.branches
    /\ Cardinality({rows \in AlignedClusters : Len(rows) > 1}) >= 2

\* ------------------------------------------------------------------------
\* Readers of a clusters file and the trailing separator
\* ------------------------------------------------------------------------

\* the text with and without the separator after its last cluster
WithTrailingSep(text) ==
    IF text.nl THEN text
    ELSE [lines |-> text.lines \o <<SepLine, SepLine>>, nl |-> TRUE]

WithoutTrailingSep(text) ==
    IF /\ text.nl /\ Len(text.lines) >= 2
       /\ IsSep(text.lines[Len(text.lines)])
       /\ IsSep(text.lines[Len(text.lines) - 1])
    THEN [lines |-> SubSeq(text.lines, 1, Len(text.lines) - 2), nl |-> FALSE]
    ELSE text

\* the clusters that reach persistent_popen_align3 over all chunk files of
\* muscle_chunker, each with the lines align_and_parse found in it
RECURSIVE ChunkedFrom(_, _)
ChunkedFrom(chunks, k) ==
    IF k > Len(chunks) THEN <<>>
    ELSE LET cl == ReadClusts(chunks[k])
         IN [i \in 1..Len(cl) |-> cl[i].lines] \o ChunkedFrom(chunks, k + 1)

ChunkedClusters(text) == ChunkedFrom(muscle_chunker(text), 1)

\* set_sample_stats, lines 946-976: the file is read two lines at a time;
\* a pair that starts with a "//" line closes the cluster, any other pair
\* is a row of it.  The rows of the clusters closed from line i on; cur
\* holds the rows since the last close (dropped at the end of the file)
RECURSIVE PairDealer(_, _, _)
PairDealer(lines, i, cur) ==
    IF i > Len(lines) THEN <<>>
    ELSE IF IsSep(lines[i])
    \* the pair needs a second line: zip stops at an odd last line
    THEN IF i + 1 > Len(lines) THEN <<>>
         ELSE <<cur>> \o PairDealer(lines, i + 2, <<>>)
    ELSE PairDealer(lines, i + 1, Append(cur, lines[i]))

StatsClusters(text) == PairDealer(text.lines, 1, <<>>)

\* C11: a file written by build_clusters is read as the same clusters, by
\* muscle_chunker with align_and_parse and by set_sample_stats, with and
\* without the separator after its last cluster: the clusters written, none
\* lost and no row of separator text.
C11_SameClustersEitherWay ==
    s3.pc = "built" =>
        \A cw \in {ClustersWritten} :
            /\ ChunkedClusters(WithTrailingSep(s3.clustfile)) = cw
            /\ ChunkedClusters(WithoutTrailingSep(s3.clustfile)) = cw
            /\ StatsClusters(WithTrailingSep(s3.clustfile)) = cw
            /\ StatsClusters(WithoutTrailingSep(s3.clustfile)) = cw

\* ------------------------------------------------------------------------
\* Properties of the merging of chunk files (SpecMerge)
\* ------------------------------------------------------------------------

\* C12: reconcat, concat_catgs and concat_denovo_consens each order the
\* chunk files of the sample by the integer chunk index of the file name
\* and concatenate them in that order: every chunk file is merged, in
\* ascending index, whatever the order glob listed them in.
C12_MergedByChunkIndex ==
    merge.pc \notin {"idle", "start"} =>
        /\ merge.err = ""
        /\ {merge.out[k] : k \in 1..Len(merge.out)} = merge.idxs
        /\ \A a \in 1..Len(merge.out) : \A b \in 1..Len(merge.out) :
               a < b => merge.out[a] < merge.out[b]

\* ------------------------------------------------------------------------
\* Properties of the workers of a stage (SpecWorkers)
\* ------------------------------------------------------------------------

\* C13: no two jobs of a stage that run at the same time write the same
\* file of the tmp directory.
C13_NoSharedTmpFile ==
    workers.pc = "run" =>
        \A x \in workers.wrote : \A y \in workers.wrote :
            x.job # y.job => x.file # y.file

\* ------------------------------------------------------------------------
\* Properties of align_and_parse with declone (SpecParse)
\* ------------------------------------------------------------------------

\* C18: with declone the .aligned file holds, in every cluster, at most one
\* row per duplicate tag: the first, that is the largest, row of the tag,
\* with size= the sum of the sizes of all rows of the tag.
C18_OneRowPerTag ==
    (s3.pc = "written" /\ s3.declone) =>
        /\ Len(s3.outfile) = Len(s3.refined)
        /\ \A k \in 1..Len(s3.outfile) :
             LET out == s3.outfile[k]
                 ref == s3.refined[k]
             IN /\ \A a \in 1..Len(out) : \A b \in 1..Len(out) :
                       a # b => out[a].tag # out[b].tag
                /\ \A a \in 1..Len(out) :
                       /\ out[a].size = TagSize(ref, out[a].tag)
                       /\ \E i \in 1..Len(ref) :
                            /\ ref[i].name = out[a].name
                            /\ ref[i].tag = out[a].tag
                            /\ \A j \in 1..(i - 1) : ref[j].tag # out[a].tag

\* ------------------------------------------------------------------------
\* Properties of Assembly.set_params (SpecParams)
\* ------------------------------------------------------------------------

\* the call of this step would set mindepth_statistical below 5, or would
\* leave mindepth_majrule above mindepth_statistical
WouldBreak ==
    /\ asm'.newvalue.num
    /\ \/ /\ asm'.param = "8"
          /\ \/ PyInt(asm'.newvalue) < 5
             \/ PyInt(asm'.newvalue) < asm.paramsdict.mindepth_majrule
       \/ /\ asm'.param = "9"
          /\ PyInt(asm'.newvalue) > asm.paramsdict.mindepth_statistical

\* C19: from the default parameters on, after every sequence of set_params
\* calls mindepth_majrule <= mindepth_statistical; a call that would break
\* this, or would set mindepth_statistical below 5, is rejected and leaves
\* both parameters as they were.
C19_MajruleAtMostStatistical ==
    /\ [](asm.pc = "params" =>
            asm.paramsdict.mindepth_majrule <= asm.paramsdict.mindepth_statistical)
    /\ [][(asm.pc = "params" /\ WouldBreak) =>
            /\ asm'.msg = "error"
            /\ asm'.paramsdict = asm.paramsdict]_vars

\* both depths were changed from their defaults and a call that would put
\* mindepth_majrule above mindepth_statistical has just been rejected
C19_Witness ==
    /\ asm.pc = "params"
    /\ asm.paramsdict.mindepth_statistical # DefaultParams.mindepth_statistical
    /\ asm.paramsdict.mindepth_majrule # DefaultParams.mindepth_majrule
    /\ asm.param = "9" /\ asm.msg = "error"
    /\ asm.newvalue.num
    /\ PyInt(asm.newvalue) > asm.paramsdict.mindepth_statistical

\* ------------------------------------------------------------------------
\* Properties of iter_filter_heteros (SpecHet)
\* ------------------------------------------------------------------------

\* the heterozygote sites and the N sites of the consensus
HetSites == Cardinality({c \in 1..Len(loc.consens) : loc.consens[c] \in HetCodes})
NSites == Cardinality({c \in 1..Len(loc.consens) : loc.consens[c] = 78})

\* h > L * max_h_consens
OverMaxH ==
    HetSites * params.max_h_consens.den > Len(loc.consens) * params.max_h_consens.num

\* L < filter_min_trim_len, or for denovo n > L * max_n_consens
OverMaxN ==
    \/ Len(loc.consens) < params.filter_min_trim_len
    \/ /\ ~params.is_ref
       /\ NSites * params.max_n_consens.den > Len(loc.consens) * params.max_n_consens.num

\* C17: a trimmed consensus of length L with h heterozygote sites and n N
\* sites is filtered as maxh iff h > L * max_h_consens; else as maxn iff
\* L < filter_min_trim_len or, for denovo, n > L * max_n_consens; else it is
\* passed on.  At h = L * max_h_consens or n = L * max_n_consens it is kept,
\* one counter advances per filtered locus, and for a reference assembly no
\* number of N sites filters.
C17_HeteroAndNFilters ==
    s5pc \in {"yielded", "filtered"} =>
        IF OverMaxH
        THEN /\ s5pc = "filtered"
             /\ filters = [InitFilters EXCEPT !["maxh"] = 1]
        ELSE IF OverMaxN
        THEN /\ s5pc = "filtered"
             /\ filters = [InitFilters EXCEPT !["maxn"] = 1]
        ELSE /\ s5pc = "yielded"
             /\ filters = InitFilters

\* a denovo locus with n = L * max_n_consens > 0 and h = L * max_h_consens
\* > 0 was passed on
C17_Witness ==
    /\ s5pc = "yielded"
    /\ ~params.is_ref
    /\ NSites > 0
    /\ NSites * params.max_n_consens.den = Len(loc.consens) * params.max_n_consens.num
    /\ HetSites > 0
    /\ HetSites * params.max_h_consens.den = Len(loc.consens) * params.max_h_consens.num

\* ------------------------------------------------------------------------
\* Properties of iter_filter_alleles (SpecAlleles)
\* ------------------------------------------------------------------------

\* the rows of the Locus without an N at a heterozygous site
RowsWithoutN ==
    SelectIdx(loc.seqs, LAMBDA i :
        \A k \in 1..Len(loc.hidx) : loc.seqs[i].seq[loc.hidx[k]] # 78)

\* the haplotype of row i of rows at the heterozygous sites
Haplotype(rows, i) == Tab(Len(loc.hidx), LAMBDA k : rows[i].seq[loc.hidx[k]])

\* the haplotype patterns: those of the rows without N that hold, at every
\* heterozygous site, one of the two called bases
Patterns ==
    {Haplotype(RowsWithoutN, i) : i \in
        {j \in 1..Len(RowsWithoutN) : \A k \in 1..Len(loc.hidx) :
            \/ RowsWithoutN[j].seq[loc.hidx[k]] = DCONS(loc.consens[loc.hidx[k]])[1]
            \/ RowsWithoutN[j].seq[loc.hidx[k]] = DCONS(loc.consens[loc.hidx[k]])[2]}}

\* the reads of a pattern
PatternCount(pat) ==
    SumSeq(Tab(Len(RowsWithoutN), LAMBDA i :
        IF Haplotype(RowsWithoutN, i) = pat THEN RowsWithoutN[i].reps ELSE 0))

\* the patterns that hold at least 10% of the rows without N
KeptPatterns ==
    {pat \in Patterns : 10 * PatternCount(pat) >= NRows(RowsWithoutN)}

\* the Locus went through iter_filter_alleles with more patterns than
\* max_alleles_consens
TooManyPatterns ==
    /\ s5pc = "iter"
    /\ Entered
    /\ loc.outcome \in {"yield", "maxalleles"}
    /\ ~loc.triallele
    /\ loc.nheteros # 1
    /\ Cardinality(Patterns) > params.max_alleles_consens

\* C21: with more haplotype patterns than max_alleles_consens, the patterns
\* dropped are those below 10% of the rows left after the rows with an N
\* at a heterozygous site are excluded; the locus is accepted, nalleles the
\* number of patterns left, iff that number is at most max_alleles_consens,
\* else it is filtered as maxalleles and not stored.
C21_LowCoverageOfRowsWithoutN ==
    TooManyPatterns =>
        IF Cardinality(KeptPatterns) <= params.max_alleles_consens
        THEN /\ loc.outcome = "yield"
             /\ nalleles = <<Cardinality(KeptPatterns)>>
             /\ filters = InitFilters
        ELSE /\ loc.outcome = "maxalleles"
             /\ filters = [InitFilters EXCEPT !["maxalleles"] = 1]
             /\ consens_seqs = <<>>

\* ------------------------------------------------------------------------
\* C22: gbs_trim
\* ------------------------------------------------------------------------
GbsLeft == LeadingGaps(s3.align1[1].seq)
GbsWidth == Len(s3.align1[1].seq)
RevGaps == {TrailingGaps(s3.align1[i].seq) :
               i \in {j \in 1..Len(s3.align1) : s3.align1[j].mark = "-"}}

\* the rows cut to the columns [left, right), or NNN when right <= left
TrimmedTo(left, right) ==
    /\ Len(s3.newalign1) = Len(s3.align1)
    /\ \A i \in 1..Len(s3.align1) :
         /\ s3.newalign1[i].name = s3.align1[i].name
         /\ s3.newalign1[i].seq = IF right > left
                                  THEN SubSeq(s3.align1[i].seq, left + 1, right)
                                  ELSE <<78, 78, 78>>
    /\ \A i \in 1..Len(s3.newalign1) :
         Len(s3.newalign1[i].seq) = Len(s3.newalign1[1].seq)

\* C22, as stated: gbs_trim cuts every row to [left, right), left the first
\* column where the seed is not a gap, right the width minus the minimum
\* number of trailing gaps over the reverse-strand hits (the width when
\* there is none); every row is NNN when right <= left; all rows of the
\* result have one length.
C22_RightFromMinTrailingGaps ==
    s3.pc = "trimmed" =>
        TrimmedTo(GbsLeft, GbsWidth - (IF RevGaps = {} THEN 0 ELSE SetMin(RevGaps)))

\* C22, amended: right is the width minus the maximum number of trailing
\* gaps over the reverse-strand hits, the cut of the least extended one.
C22_RightFromMaxTrailingGaps ==
    s3.pc = "trimmed" =>
        TrimmedTo(GbsLeft, GbsWidth - (IF RevGaps = {} THEN 0 ELSE SetMax(RevGaps)))

\* two reverse-strand hits that end at different columns have been trimmed
C22_Witness ==
    /\ s3.pc = "trimmed"
    /\ Cardinality(RevGaps) > 1
    /\ GbsLeft > 0
    /\ \E i \in 1..Len(s3.newalign1) : s3.newalign1[i].seq # <<78, 78, 78>>

\* ------------------------------------------------------------------------
\* C23: the chunk files of muscle_chunker
\* ------------------------------------------------------------------------

\* the clusters of chunk file idx (from 0), each as its rows
ChunkRows(idx) ==
    LET pieces == SelectSeq(Split(s3.chunks[idx + 1]), LAMBDA piece : RowsOf(piece) # <<>>)
    IN [k \in 1..Len(pieces) |-> RowsOf(pieces[k])]

RECURSIVE ChunkRowsFrom(_)
ChunkRowsFrom(idx) ==
    IF idx >= NChunks THEN <<>> ELSE ChunkRows(idx) \o ChunkRowsFrom(idx + 1)

Chunked == s3.pc \notin {"idle", "start", "built"}

\* C23: for every number of clusters of the cluster file, muscle_chunker
\* writes 10 chunk files, chunk 0 holds no more clusters than any other
\* chunk and chunk 9 no fewer than any other, and the chunks in index order
\* hold every input cluster exactly once, in the original order.
C23_FirstSmallestLastLargest ==
    Chunked =>
        /\ Len(s3.chunks) = NChunks
        /\ \A idx \in 0..(NChunks - 1) :
             /\ Len(ChunkRows(0)) <= Len(ChunkRows(idx))
             /\ Len(ChunkRows(NChunks - 1)) >= Len(ChunkRows(idx))
        /\ ChunkRowsFrom(0) = ClustersWritten

\* ------------------------------------------------------------------------
\* C24: the commands of persistent_popen_align3 and its helper shell
\* ------------------------------------------------------------------------

\* the commands the claim expects of a cluster
ExpectedCommands(clust) ==
    IF Len(clust) = 1 THEN 0
    ELSE IF \A i \in 1..Len(clust) : clust[i] THEN 2
    ELSE 1

ProcExited == s3.pc \in {"returned", "IndexError"}

\* C24: every command written to the helper shell is followed by the read
\* of its output up to the "//" line before the next command is written
\* (never two commands outstanding), the k-th alignment read belongs to
\* the k-th command written; a cluster of one row issues no command, a
\* cluster whose rows all hold nnnn issues two, any other cluster one; the
\* helper shell is closed and waited for on every exit path.
C24_PairedOrderedAndClosed ==
    s3.pc \notin {"idle"} =>
        /\ Len(s3.sent) - Len(s3.got) <= 1
        /\ \A j \in 1..Len(s3.got) : s3.got[j] = s3.sent[j]
        /\ \A c \in 1..Len(s3.issued) :
             s3.issued[c] = ExpectedCommands(s3.clusts[c])
        /\ ProcExited => ~s3.open /\ s3.waited

\* the part of C24 on the order of writes and reads
C24_WritesAndReadsPaired ==
    s3.pc \notin {"idle"} =>
        /\ Len(s3.sent) - Len(s3.got) <= 1
        /\ \A j \in 1..Len(s3.got) : s3.got[j] = s3.sent[j]

\* ------------------------------------------------------------------------
\* C25: the internal indel filter
\* ------------------------------------------------------------------------

\* the gaps of seq that have a character other than a gap on both sides
GapsInside(seq) ==
    Cardinality({i \in 1..Len(seq) :
                    /\ seq[i] = Gap
                    /\ \E j \in 1..(i - 1) : seq[j] # Gap
                    /\ \E j \in (i + 1)..Len(seq) : seq[j] # Gap})

HoldsInsert(seq) ==
    \E i \in 1..(Len(seq) - 3) : \A d \in 0..3 : seq[i + d] = InsertChar

\* the text before and after the nnnn of a pair
FirstHalf(seq) ==
    SubSeq(seq, 1, (CHOOSE i \in 1..(Len(seq) - 3) : \A d \in 0..3 : seq[i + d] = InsertChar) - 1)
SecondHalf(seq) ==
    SubSeq(seq, (CHOOSE i \in 1..(Len(seq) - 3) : \A d \in 0..3 : seq[i + d] = InsertChar) + 4,
           Len(seq))

\* the largest count of the cluster, as the claim takes it
MaxGapsInside(clust) ==
    IF \A i \in 1..Len(clust) : HoldsInsert(clust[i].seq)
    THEN SetMax({GapsInside(FirstHalf(clust[i].seq)) : i \in 1..Len(clust)}
                \cup {GapsInside(SecondHalf(clust[i].seq)) : i \in 1..Len(clust)})
    ELSE SetMax({GapsInside(clust[i].seq) : i \in 1..Len(clust)})

IndelFiltered == s3.pc \in {"written", "returned"} /\ "highindels" \in DOMAIN s3

\* C25: a cluster is dropped iff some row has more than max_internal_indels
\* gaps strictly inside its sequence, the gaps at its edges not counted;
\* when every row holds nnnn the halves are counted apart and the largest
\* count over the halves of all rows decides; a cluster whose largest count
\* is max_internal_indels is kept; align_and_parse returns the number of
\* the clusters dropped and writes all the others.
C25_DropsOnInternalGapsOnly ==
    (IndelFiltered /\ "outfile" \in DOMAIN s3 /\ "declone" \notin DOMAIN s3) =>
        /\ s3.outfile = SelectSeq(s3.aligned, LAMBDA c :
                                     MaxGapsInside(c) <= max_internal_indels)
        /\ s3.highindels =
               Len(SelectSeq(s3.aligned, LAMBDA c :
                                MaxGapsInside(c) > max_internal_indels))
        /\ s3.highindels + Len(s3.outfile) = Len(s3.aligned)

\* a chunk of two clusters: one is kept with max_internal_indels gaps in a
\* half and more gaps at the edges of the halves, one is dropped
C25_Witness ==
    /\ IndelFiltered /\ "declone" \notin DOMAIN s3
    /\ s3.pc = "written"
    /\ s3.highindels = 1
    /\ Len(s3.outfile) = 1
    /\ \A i \in 1..Len(s3.outfile[1]) : HoldsInsert(s3.outfile[1][i].seq)
    /\ MaxGapsInside(s3.outfile[1]) = max_internal_indels
    /\ \E i \in 1..Len(s3.outfile[1]) :
         GapsInside(s3.outfile[1][i].seq) > max_internal_indels

\* ------------------------------------------------------------------------
\* C26: the stack of get_stackarray
\* ------------------------------------------------------------------------

\* the clusters at or above min_depth_statistical, in file order
HiDepthClusters ==
    SelectIdx(stlog.depths, LAMBDA i : stlog.depths[i] >= stlog.mindepth)

\* C26: the stack is built only from the clusters whose depth is at least
\* min_depth_statistical, in file order, and stops after min(size, K) of
\* them; every selected cluster has its base counts in its own row and no
\* cluster below the threshold has a row.
C26_StackOfHiDepthClusters ==
    (stlog.op = "get_stackarray" /\ HiDepthClusters # <<>>) =>
        /\ stlog.err = ""
        /\ stlog.rows = SubSeq(HiDepthClusters, 1,
                               Min(stlog.size, Len(HiDepthClusters)))

\* ------------------------------------------------------------------------
\* C27: the stats counters of a chunk
\* ------------------------------------------------------------------------

\* C27: every cluster read from the chunk is accounted for once: the
\* clusters read are nconsens plus the filters depth, maxh, maxn and
\* maxalleles; every cluster increments exactly one of the five, and no
\* path updates a counter that does not exist.
C27_EveryClusterCountedOnce ==
    s5pc \in {"iter", "KeyError"} =>
        /\ nread = counters.nconsens + filters["depth"] + filters["maxh"]
                      + filters["maxn"] + filters["maxalleles"]
        /\ s5pc # "KeyError"

\* ------------------------------------------------------------------------
\* C30: refpos after the edge trim of iter_build_consens
\* ------------------------------------------------------------------------

\* the called columns of the untrimmed consensus: [ltrim, rtrim)
RawCalled == {c \in 1..Len(loc.rawcons) : loc.rawcons[c] # 78}
TrimLeft == SetMin(RawCalled) - 1
TrimRight == SetMax(RawCalled)

\* a locus that went through the edge trim of iter_build_consens
EdgeTrimmed ==
    /\ s5pc = "iter" /\ Entered
    /\ loc.outcome \notin {"depth", "mindepth"}
    /\ ~(loc.triallele /\ params.max_alleles_consens < 3)
    /\ RawCalled # {}

\* C30: with the columns [ltrim, rtrim) of the consensus retained, the new
\* start is the old start plus ltrim and the new end minus the new start is
\* rtrim - ltrim, the length of the trimmed consensus; the interval is
\* never wider than the trimmed consensus and never ends past the old
\* start plus rtrim.
C30_RefposSpansTrimmedConsens ==
    EdgeTrimmed =>
        \E old_start \in RefStarts \cup {0} :
            /\ loc.refpos[2] = old_start + TrimLeft
            /\ loc.refpos[3] - loc.refpos[2] = TrimRight - TrimLeft
            /\ loc.refpos[3] <= old_start + TrimRight

\* ------------------------------------------------------------------------
\* C29: consensus records and catgs rows line up
\* ------------------------------------------------------------------------

\* the clusters of the chunk files in chunk order
RECURSIVE ClustersInChunkOrder(_)
ClustersInChunkOrder(idx) ==
    IF idx >= MaxChunkFiles THEN <<>>
    ELSE (IF idx \in merge.idxs
          THEN [k \in 1..Len(merge.lines[idx]) |-> merge.lines[idx][k].cluster]
          ELSE <<>>) \o ClustersInChunkOrder(idx + 1)

\* C29: the i-th consensus record, named <sample>_i with i counted from 0
\* across the chunks in chunk order, is of the same cluster as row i of
\* the concatenated catgs and nalleles; there are as many records as rows,
\* also when consensus lines hold nnnn once or more often.
C29_RecordsMatchCatgsRows ==
    (merge.pc = "chunks" /\ merge.ran = {"concat_catgs", "concat_denovo_consens"}) =>
        /\ merge.errs = {}
        /\ merge.rows = ClustersInChunkOrder(0)
        /\ Len(merge.records) = Len(merge.rows)
        /\ \A i \in 1..Len(merge.records) :
             /\ merge.records[i].name = i - 1
             /\ merge.records[i].cluster = merge.rows[i]

\* ------------------------------------------------------------------------
\* C28: the reads of the aligned clusters
\* ------------------------------------------------------------------------

\* the headers of the rows among lines
Headers(lines) ==
    {lines[i] : i \in {j \in 1..Len(lines) : ~IsSep(lines[j])}}

\* C28: alignment neither drops nor duplicates reads: every cluster that
\* persistent_popen_align3 returns has the row headers of its input
\* cluster, whatever the number of its rows, and every input cluster has
\* exactly one returned cluster.
C28_AlignmentKeepsReads ==
    Chunked =>
        \A k \in 1..Len(s3.results) :
            \A inp \in {ReadClusts(s3.chunks[k])} :
                /\ Len(s3.results[k]) = Len(inp)
                /\ \A i \in 1..Len(inp) :
                     /\ Headers(s3.results[k][i]) = Headers(inp[i].lines)
                     /\ Len(SelectSeq(s3.results[k][i], LAMBDA ln : ~IsSep(ln)))
                            = Cardinality(Headers(inp[i].lines))

====
